---------------------------- MODULE Spec2Model ----------------------------
(***************************************************************************)
(* State-machine model of the Security Dashboard core: the Alert Lifecycle *)
(* Manager (src/alert_manager.py) and the Threat Detector                  *)
(* (src/threat_detector.py).  Every handler of AlertManager and every      *)
(* analyze_data pass of ThreatDetector is one atomic action; the values    *)
(* Python draws from the clock and from random.randint are inputs of the   *)
(* actions.                                                                *)
(***************************************************************************)
EXTENDS Integers, Sequences, FiniteSets, TLC

VARIABLES
    alerts,         \* AlertManager.alerts: the active set, a Python list
    alert_history,  \* AlertManager.alert_history: list of copies made at creation
    removed,        \* ghost: the alert objects resolve_alert took out of alerts, in order,
                    \*        each as it was left (see Resolved)
    nCreated,       \* ghost: number of alert objects built so far (serial of the last one)
    now,            \* the wall clock in seconds: int(time.time()) / datetime.now()
    call,           \* the last call: [op, id, user]
    ret,            \* what that call returned: [tag, val]
    security_data,  \* the security_data dict handed to ThreatDetector.analyze_data
    last_alert_time,   \* ThreatDetector.last_alert_time: alert type -> time of last send
    analysis_history,  \* ThreatDetector.analysis_history
    emitted,        \* ghost: for each analyze_data call so far, the Threats it
                    \*        returned, each as [id, type, at]
    threads,        \* the calls in progress, one record per thread of control:
                    \*        the statement it is at and its local variables
    threat_alerts,  \* app.py: security_data['threat_alerts'], a list of references
                    \*        to the alert objects create_alert returned
    loop            \* app.py: where background_data_collection is in its cycle

\* the state of the AlertManager and the state of the ThreatDetector
mgrVars == <<alerts, alert_history, removed, nCreated>>
detVars == <<security_data, last_alert_time, analysis_history, emitted>>
\* the threads and the state app.py keeps outside the two components
appVars == <<threads, threat_alerts, loop>>

vars == <<alerts, alert_history, removed, nCreated, now, call, ret,
          security_data, last_alert_time, analysis_history, emitted,
          threads, threat_alerts, loop>>

----------------------------------------------------------------------------
\* Bounds of the model.

\* number of alerts created in one behaviour of Spec
MaxAlerts == 2
\* the clock runs over 0..MaxTime
MaxTime == 1
\* random.randint(1000, 9999) is drawn from RandLow..RandLow+NumRand-1
NumRand == 2
\* number of alerts created in one behaviour of SpecCap (beyond the history cap)
CapOverrun == 2

----------------------------------------------------------------------------
\* Program constants.

\* alert_manager.py:79  `if len(self.alert_history) > 1000`
HistoryCap == 1000
\* alert_manager.py:46  random.randint(1000, 9999)
RandLow == 1000
\* alert_manager.py:15  resolve_threshold
ResolveThreshold == 70
\* alert_manager.py:207 `current_connections < 1000`
NetResolveConnections == 1000
\* alert_manager.py:212 `current_listening < 30`
NetResolveListening == 30
\* alert_manager.py:61  default of .get('escalation_time', 300)
DefaultEscalation == 300

\* Python's None where the field otherwise holds a time / a string
NoneTime == -1
NoneStr == "None"

Rands == RandLow .. (RandLow + NumRand - 1)
\* an id no create_alert call builds (random.randint stays above RandLow - 1)
UnknownId == <<0, RandLow - 1>>
Users == {"admin"}
NotesSet == {NoneStr}

----------------------------------------------------------------------------
\* Threats, as the detector builds them (id = f"<kind>_{int(time.time())}").

CpuThreat(t, pct) ==
    [isDict |-> TRUE, id |-> <<"cpu_abuse", t>>, type |-> "resource_abuse",
     severity |-> "medium",
     description |-> <<"High", "CPU", "usage", "detected:", pct>>]

NetThreat(t, n) ==
    [isDict |-> TRUE, id |-> <<"network_anomaly", t>>, type |-> "network_anomaly",
     severity |-> "high",
     description |-> <<"Excessive", "network", "connections", "detected:", n>>]

ProcThreat(t, n) ==
    [isDict |-> TRUE, id |-> <<"process_anomaly", t>>, type |-> "suspicious_process",
     severity |-> "medium",
     description |-> <<"Unusually", "high", "number", "of", "processes:", n>>]

\* a threat argument that is no dict (threat.get raises AttributeError)
NoneThreat == [isDict |-> FALSE]

\* the threats handed to create_alert at time t
ThreatInputs(t) ==
    {CpuThreat(t, "96%"), NetThreat(t, "1600"), ProcThreat(t, "600"), NoneThreat}

----------------------------------------------------------------------------
\* AlertManager.__init__: the rule catalog and the severity table.

alert_rules(type) ==
    CASE type = "resource_abuse"  -> [auto_resolve |-> TRUE,  escalation_time |-> 300]
      [] type = "network_anomaly" -> [auto_resolve |-> FALSE, escalation_time |-> 180]
      [] type = "brute_force"     -> [auto_resolve |-> FALSE, escalation_time |-> 60]
      [] type = "security_event"  -> [auto_resolve |-> FALSE, escalation_time |-> 120]
      \* .get(type, {}) of an unknown type, then the .get defaults
      [] OTHER -> [auto_resolve |-> FALSE, escalation_time |-> DefaultEscalation]

severity_levels(sev) ==
    CASE sev = "low"      -> 1
      [] sev = "medium"   -> 2
      [] sev = "high"     -> 3
      [] sev = "critical" -> 4
      [] OTHER            -> 1

\* str.startswith on descriptions, which are sequences of words
StartsWith(desc, prefix) ==
    /\ Len(desc) >= Len(prefix)
    /\ SubSeq(desc, 1, Len(prefix)) = prefix

\* the alert dict create_alert builds (lines 46-70); uid is the identity of
\* the Python object, which the history copy keeps as "copy of uid"
NewAlert(threat, uid, t, rnd) ==
    [uid |-> uid,
     id |-> <<t, rnd>>,
     threat_id |-> threat.id,
     timestamp |-> t,
     type |-> threat.type,
     severity |-> threat.severity,
     description |-> threat.description,
     status |-> "active",
     priority |-> severity_levels(threat.severity),
     escalation_time |-> [iso |-> FALSE, at |-> t + alert_rules(threat.type).escalation_time],
     auto_resolve |-> alert_rules(threat.type).auto_resolve,
     acknowledged |-> FALSE,
     acknowledged_by |-> NoneStr,
     acknowledged_at |-> NoneTime,
     resolved |-> FALSE,
     resolved_at |-> NoneTime,
     resolution_notes |-> NoneStr]

\* the values a call returns
RetTrue == [tag |-> "True", val |-> 0]
RetFalse == [tag |-> "False", val |-> 0]
RetNone == [tag |-> "None", val |-> 0]
RetAlert(uid) == [tag |-> "Alert", val |-> uid]

\* the threads of control: the driving loop of app.py and two request handlers
Threads == {"loop", "h1", "h2"}
Handlers == {"h1", "h2"}

\* a thread that is in no call: pc is the statement it is at, op and id the
\* call, i the position of the iterator of _find_alert, alert the object
\* `alert` is bound to (0 for None), copy and k the list and the position of
\* the loop of auto_resolve_alerts, arg the security_data of analyze_data,
\* current_time and send the local variable and the answer of
\* _should_send_alert; seen and calls are ghosts
ThreadIdle ==
    [pc |-> "idle", op |-> "none", id |-> UnknownId, i |-> 0, alert |-> 0,
     ret |-> RetNone, copy |-> <<>>, k |-> 0, arg |-> <<>>, current_time |-> 0,
     send |-> FALSE, seen |-> {}, calls |-> 0]

Init ==
    /\ alerts = <<>>
    /\ alert_history = <<>>
    /\ removed = <<>>
    /\ nCreated = 0
    /\ now = 0
    /\ call = [op |-> "init", id |-> UnknownId, user |-> NoneStr]
    /\ ret = RetNone
    /\ security_data = [system_metrics |-> <<>>, network_traffic |-> <<>>,
                        security_events |-> <<>>]
    /\ last_alert_time = [type \in {} |-> 0]
    /\ analysis_history = <<>>
    /\ emitted = <<>>
    /\ threads = [th \in Threads |-> ThreadIdle]
    /\ threat_alerts = <<>>
    /\ loop = [pc |-> "collect", threats |-> <<>>, k |-> 0]

\* a trim that keeps the oldest entries: self.alert_history[:1000]
LastN_KeepsOldest(s, n) == IF Len(s) > n THEN SubSeq(s, 1, n) ELSE s

\* self.alert_history[-1000:]
LastN(s, n) == IF Len(s) > n THEN SubSeq(s, Len(s) - n + 1, Len(s)) ELSE s

\* a create_alert that puts the new alert at the head of the active set:
\* self.alerts.insert(0, alert)
create_alert_Prepends(threat, rnd) ==
    /\ call' = [op |-> "create_alert", id |-> <<now, rnd>>, user |-> NoneStr]
    /\ IF threat.isDict
       THEN LET alert == NewAlert(threat, nCreated + 1, now, rnd)
                hist == Append(alert_history, alert)
            IN /\ alerts' = <<alert>> \o alerts
               /\ alert_history' = IF Len(hist) > HistoryCap THEN LastN(hist, HistoryCap) ELSE hist
               /\ nCreated' = nCreated + 1
               /\ ret' = RetAlert(nCreated + 1)
       ELSE /\ ret' = RetNone
            /\ UNCHANGED <<alerts, alert_history, nCreated>>
    /\ UNCHANGED <<removed, now>>

\* AlertManager.create_alert(threat); rnd is random.randint's value
create_alert(threat, rnd) ==
    /\ call' = [op |-> "create_alert", id |-> <<now, rnd>>, user |-> NoneStr]
    /\ IF threat.isDict
       THEN LET alert == NewAlert(threat, nCreated + 1, now, rnd)
                hist == Append(alert_history, alert)
            IN /\ alerts' = Append(alerts, alert)
               /\ alert_history' = IF Len(hist) > HistoryCap THEN LastN(hist, HistoryCap) ELSE hist
               /\ nCreated' = nCreated + 1
               /\ ret' = RetAlert(nCreated + 1)
       ELSE \* except Exception: return None
            /\ ret' = RetNone
            /\ UNCHANGED <<alerts, alert_history, nCreated>>
    /\ UNCHANGED <<removed, now>>

\* a search that falls out of its loop with the loop variable: `return alert`
\* after the for, which yields the last alert when no id matches
_find_alert_LeaksLoopVar(as, alert_id) ==
    IF \E i \in 1..Len(as) : as[i].id = alert_id
    THEN CHOOSE i \in 1..Len(as) :
            /\ as[i].id = alert_id
            /\ \A j \in 1..(i - 1) : as[j].id # alert_id
    ELSE Len(as)

\* AlertManager._find_alert: the position of the first alert with that id,
\* 0 for None
_find_alert(as, alert_id) ==
    IF \E i \in 1..Len(as) : as[i].id = alert_id
    THEN CHOOSE i \in 1..Len(as) :
            /\ as[i].id = alert_id
            /\ \A j \in 1..(i - 1) : as[j].id # alert_id
    ELSE 0

\* dict equality, which does not see the identity of the object
SameDict(a, b) == [a EXCEPT !.uid = 0] = [b EXCEPT !.uid = 0]

\* a resolve_alert without its self.alerts.remove(alert)
ListRemove_Forgotten(as, x) == as

\* list.remove(x): drops the first element equal to x
ListRemove(as, x) ==
    LET i == CHOOSE i \in 1..Len(as) :
                /\ SameDict(as[i], x)
                /\ \A j \in 1..(i - 1) : ~SameDict(as[j], x)
    IN SubSeq(as, 1, i - 1) \o SubSeq(as, i + 1, Len(as))

\* an acknowledge_alert that also writes the status
acknowledge_alert_SetsStatus(alert_id, user) ==
    LET i == _find_alert(alerts, alert_id)
    IN /\ call' = [op |-> "acknowledge_alert", id |-> alert_id, user |-> user]
       /\ IF i # 0
          THEN /\ alerts' = [alerts EXCEPT ![i] =
                                [@ EXCEPT !.acknowledged = TRUE,
                                          !.acknowledged_by = user,
                                          !.acknowledged_at = now,
                                          !.status = "acknowledged"]]
               /\ ret' = RetTrue
          ELSE /\ alerts' = alerts
               /\ ret' = RetFalse
       /\ UNCHANGED <<alert_history, removed, nCreated, now>>

\* AlertManager.acknowledge_alert(alert_id, user)
acknowledge_alert(alert_id, user) ==
    LET i == _find_alert(alerts, alert_id)
    IN /\ call' = [op |-> "acknowledge_alert", id |-> alert_id, user |-> user]
       /\ IF i # 0
          THEN /\ alerts' = [alerts EXCEPT ![i] =
                                [@ EXCEPT !.acknowledged = TRUE,
                                          !.acknowledged_by = user,
                                          !.acknowledged_at = now]]
               /\ ret' = RetTrue
          ELSE /\ alerts' = alerts
               /\ ret' = RetFalse
       /\ UNCHANGED <<alert_history, removed, nCreated, now>>

\* what the model keeps of an alert object that is no longer in alerts: its
\* identity and the fields resolve_alert decided; nothing in AlertManager
\* reaches the object again
Resolved(alert) ==
    [uid |-> alert.uid, id |-> alert.id, status |-> alert.status, resolved |-> alert.resolved]

\* a resolve_alert that sets the flag and forgets `alert['status'] = 'resolved'`
Resolve_KeepsStatus(st, alert_id, notes, t) ==
    LET i == _find_alert(st.alerts, alert_id)
    IN IF i # 0
       THEN LET alert == [st.alerts[i] EXCEPT !.resolved = TRUE,
                                              !.resolved_at = t,
                                              !.resolution_notes = notes]
                mutated == [st.alerts EXCEPT ![i] = alert]
            IN [alerts |-> ListRemove(mutated, alert),
                removed |-> Append(st.removed, Resolved(alert)),
                ret |-> RetTrue]
       ELSE [alerts |-> st.alerts, removed |-> st.removed, ret |-> RetFalse]

\* the body of resolve_alert on a manager state st = [alerts, removed] at
\* time t: the state after the call and the returned value
Resolve(st, alert_id, notes, t) ==
    LET i == _find_alert(st.alerts, alert_id)
    IN IF i # 0
       THEN LET alert == [st.alerts[i] EXCEPT !.resolved = TRUE,
                                              !.resolved_at = t,
                                              !.resolution_notes = notes,
                                              !.status = "resolved"]
                mutated == [st.alerts EXCEPT ![i] = alert]
            IN [alerts |-> ListRemove(mutated, alert),
                removed |-> Append(st.removed, Resolved(alert)),
                ret |-> RetTrue]
       ELSE [alerts |-> st.alerts, removed |-> st.removed, ret |-> RetFalse]

\* a resolve_alert that does what its comment says, "Move to history": the
\* history entries of the resolved alert take its resolved state
resolve_alert_MovesToHistory(alert_id, user, notes) ==
    LET r == Resolve([alerts |-> alerts, removed |-> removed], alert_id, notes, now)
    IN /\ call' = [op |-> "resolve_alert", id |-> alert_id, user |-> user]
       /\ alerts' = r.alerts
       /\ removed' = r.removed
       /\ ret' = r.ret
       /\ alert_history' =
             IF r.ret = RetTrue
             THEN [i \in 1..Len(alert_history) |->
                     IF alert_history[i].uid = r.removed[Len(r.removed)].uid
                     THEN [alert_history[i] EXCEPT !.resolved = TRUE, !.status = "resolved"]
                     ELSE alert_history[i]]
             ELSE alert_history
       /\ UNCHANGED <<nCreated, now>>

\* AlertManager.resolve_alert(alert_id, user, notes)
resolve_alert(alert_id, user, notes) ==
    LET r == Resolve([alerts |-> alerts, removed |-> removed], alert_id, notes, now)
    IN /\ call' = [op |-> "resolve_alert", id |-> alert_id, user |-> user]
       /\ alerts' = r.alerts
       /\ removed' = r.removed
       /\ ret' = r.ret
       /\ UNCHANGED <<alert_history, nCreated, now>>

\* AlertManager.escalate_alert(alert_id)
escalate_alert(alert_id) ==
    LET i == _find_alert(alerts, alert_id)
    IN /\ call' = [op |-> "escalate_alert", id |-> alert_id, user |-> NoneStr]
       /\ IF i # 0 /\ alerts[i].status = "active"
          THEN /\ alerts' = [alerts EXCEPT ![i] =
                                [@ EXCEPT !.status = "escalated",
                                          !.escalation_time = [iso |-> TRUE, at |-> now]]]
               /\ ret' = RetTrue
          ELSE /\ alerts' = alerts
               /\ ret' = RetFalse
       /\ UNCHANGED <<alert_history, removed, nCreated, now>>

\* dict.get(key, default) on a snapshot
Get(d, key, default) == IF key \in DOMAIN d THEN d[key] ELSE default

\* current_metrics.get(key) is truthy: the key is there and its list is not empty
Truthy(metrics, key) == key \in DOMAIN metrics /\ Len(metrics[key]) > 0

Last(s) == s[Len(s)]

\* AlertManager._check_resource_resolution(alert, current_metrics)
_check_resource_resolution(alert, current_metrics) ==
    IF ~Truthy(current_metrics, "system_metrics")
    THEN FALSE
    ELSE LET latest_metrics == Last(current_metrics["system_metrics"])
             threshold == ResolveThreshold
         IN IF StartsWith(alert.description, <<"High", "CPU", "usage">>)
            THEN Get(latest_metrics, "cpu", 0) < threshold
            ELSE IF StartsWith(alert.description, <<"High", "memory", "usage">>)
            THEN Get(latest_metrics, "memory", 0) < threshold
            ELSE IF StartsWith(alert.description, <<"High", "disk", "usage">>)
            THEN Get(latest_metrics, "disk", 0) < threshold
            ELSE FALSE

\* AlertManager._check_network_resolution(alert, current_metrics)
_check_network_resolution(alert, current_metrics) ==
    IF ~Truthy(current_metrics, "network_traffic")
    THEN FALSE
    ELSE LET latest_network == Last(current_metrics["network_traffic"])
         IN IF StartsWith(alert.description, <<"Excessive", "network", "connections">>)
            THEN Get(latest_network, "connections", 0) < NetResolveConnections
            ELSE IF StartsWith(alert.description, <<"High", "number", "of", "listening", "ports">>)
            THEN Get(latest_network, "listening", 0) < NetResolveListening
            ELSE FALSE

\* whether the loop body of auto_resolve_alerts calls resolve_alert for alert
AutoResolves(alert, current_metrics) ==
    /\ alert.auto_resolve
    /\ \/ /\ alert.type = "resource_abuse"
          /\ _check_resource_resolution(alert, current_metrics)
       \/ /\ alert.type = "network_anomaly"
          /\ _check_network_resolution(alert, current_metrics)

\* the loop `for alert in self.alerts[:]` from position k of the copy, on the
\* manager state st = [alerts, removed, resolved_count]
RECURSIVE AutoResolveLoop(_, _, _, _, _)
AutoResolveLoop(copy, k, st, current_metrics, t) ==
    IF k > Len(copy)
    THEN st
    ELSE IF AutoResolves(copy[k], current_metrics)
         THEN LET notes == IF copy[k].type = "resource_abuse"
                           THEN "Resource usage normalized"
                           ELSE "Network activity normalized"
                  r == Resolve(st, copy[k].id, notes, t)
              IN AutoResolveLoop(copy, k + 1,
                                 [alerts |-> r.alerts, removed |-> r.removed,
                                  resolved_count |-> st.resolved_count + 1],
                                 current_metrics, t)
         ELSE AutoResolveLoop(copy, k + 1, st, current_metrics, t)

\* AlertManager.auto_resolve_alerts(current_metrics): the function has no
\* return statement, so the call yields None
auto_resolve_alerts(current_metrics) ==
    LET r == AutoResolveLoop(alerts, 1,
                             [alerts |-> alerts, removed |-> removed, resolved_count |-> 0],
                             current_metrics, now)
    IN /\ call' = [op |-> "auto_resolve_alerts", id |-> UnknownId, user |-> "system_auto_resolve"]
       /\ alerts' = r.alerts
       /\ removed' = r.removed
       /\ ret' = RetNone
       /\ UNCHANGED <<alert_history, nCreated, now>>

\* a get_active_alerts that lists what is unresolved:
\* [alert for alert in self.alerts if not alert['resolved']]
get_active_alerts_Unresolved == SelectSeq(alerts, LAMBDA a : ~a.resolved)

\* AlertManager.get_active_alerts()
get_active_alerts == SelectSeq(alerts, LAMBDA a : a.status = "active")

\* the current_metrics handed to auto_resolve_alerts
MetricsInputs ==
    {[system_metrics |-> <<>>, network_traffic |-> <<>>],
     [system_metrics |-> <<[cpu |-> 96, memory |-> 50, disk |-> 50], [cpu |-> 65, memory |-> 50, disk |-> 50]>>,
      network_traffic |-> <<[connections |-> 900, listening |-> 20]>>],
     [system_metrics |-> <<[cpu |-> 75, memory |-> 50, disk |-> 50]>>,
      network_traffic |-> <<[connections |-> 1600, listening |-> 20]>>],
     [system_metrics |-> <<[cpu |-> 65, memory |-> 50, disk |-> 50], [cpu |-> 70, memory |-> 50, disk |-> 50]>>,
      network_traffic |-> <<[connections |-> 999, listening |-> 29]>>]}

\* the ids handed to acknowledge_alert, resolve_alert and escalate_alert: the
\* id of any alert built so far, or an unknown one
AlertIds ==
    {alerts[i].id : i \in 1..Len(alerts)} \cup {removed[i].id : i \in 1..Len(removed)}
        \cup {UnknownId}

\* time passes; no call of the manager is in progress
Tick ==
    /\ now < MaxTime
    /\ now' = now + 1
    /\ call' = [op |-> "tick", id |-> UnknownId, user |-> NoneStr]
    /\ ret' = RetNone
    /\ UNCHANGED <<alerts, alert_history, removed, nCreated>>

\* The calls on the AlertManager; the detector is idle.
Next ==
    \/ \E th \in ThreatInputs(now), rnd \in Rands :
          nCreated < MaxAlerts /\ create_alert(th, rnd) /\ UNCHANGED <<detVars, appVars>>
    \/ \E id \in AlertIds, u \in Users : acknowledge_alert(id, u) /\ UNCHANGED <<detVars, appVars>>
    \/ \E id \in AlertIds, u \in Users, n \in NotesSet :
          resolve_alert(id, u, n) /\ UNCHANGED <<detVars, appVars>>
    \/ \E id \in AlertIds : escalate_alert(id) /\ UNCHANGED <<detVars, appVars>>
    \/ \E m \in MetricsInputs : auto_resolve_alerts(m) /\ UNCHANGED <<detVars, appVars>>
    \/ Tick /\ UNCHANGED <<detVars, appVars>>

Spec == Init /\ [][Next]_vars

\* Creation volume: nothing but create_alert calls, past the history cap.
NextCap ==
    \E th \in {CpuThreat(now, "96%")}, rnd \in {RandLow} :
        nCreated < HistoryCap + CapOverrun /\ create_alert(th, rnd) /\ UNCHANGED <<detVars, appVars>>

SpecCap == Init /\ [][NextCap]_vars

----------------------------------------------------------------------------
\* The Threat Detector (src/threat_detector.py).

\* threat_detector.py:37  self.alert_cooldown
alert_cooldown == 60
\* threat_detector.py:144 `total_count > 500`
ProcessThreshold == 500
\* threat_detector.py:213 `errors_in > 100 or errors_out > 100`
ErrorRateThreshold == 100
\* threat_detector.py:307 `cpu_trend[-1] - cpu_trend[0] > 30`
CpuRiseThreshold == 30
\* threat_detector.py:327 `connection_counts[-1] - connection_counts[0] > 500`
ConnectionSpikeThreshold == 500
\* threat_detector.py:302 `>= 3` and 303 `[-3:]`: the window of the trend checks
TrendWindow == 3
\* threat_detector.py:261 `high_severity[:5]`
EventPreview == 5
\* threat_detector.py:74  `if len(self.analysis_history) > 100`
AnalysisCap == 100

\* the thresholds of the rule catalog as they were before the source raised
\* them ("Increased from 90 to 95", "Increased from 95 to 98")
threat_patterns_BeforeIncrease(type) ==
    CASE type = "brute_force" ->
            [failed_logins_threshold |-> 5, severity |-> "high"]
      [] type = "resource_abuse" ->
            [cpu_threshold |-> 90, memory_threshold |-> 95, disk_threshold |-> 95,
             severity |-> "medium"]
      [] type = "network_anomaly" ->
            [connection_threshold |-> 1500, port_scan_threshold |-> 50, severity |-> "high"]
      [] type = "suspicious_process" ->
            [severity |-> "medium"]

\* ThreatDetector.__init__: self.threat_patterns, the fields the checks read
threat_patterns(type) ==
    CASE type = "brute_force" ->
            [failed_logins_threshold |-> 5, severity |-> "high"]
      [] type = "resource_abuse" ->
            [cpu_threshold |-> 95, memory_threshold |-> 98, disk_threshold |-> 95,
             severity |-> "medium"]
      [] type = "network_anomaly" ->
            [connection_threshold |-> 1500, port_scan_threshold |-> 50, severity |-> "high"]
      [] type = "suspicious_process" ->
            [severity |-> "medium"]

\* a value that is no dict where the detector expects one (None): every .get
\* on it raises AttributeError
NotADict == [isDict |-> FALSE]

\* whether .get can be called on d
IsDict(d) == Get(d, "isDict", TRUE)

\* a Threat dict; the id is f'{kind}_{int(time.time())}'
Threat(kind, t, type, severity, description, source, details) ==
    [isDict |-> TRUE, id |-> <<kind, t>>, timestamp |-> t, type |-> type,
     severity |-> severity, description |-> description, source |-> source,
     details |-> details, status |-> "detected"]

\* the analysis_error Threat of an except block; it has no details, and its
\* description ends with str(e)
ErrorThreat(kind, t, severity, description) ==
    [isDict |-> TRUE, id |-> <<kind, t>>, timestamp |-> t, type |-> "analysis_error",
     severity |-> severity, description |-> description \o <<"AttributeError">>,
     source |-> "threat_detector", status |-> "detected"]

\* f'{x}%'
Percent(x) == ToString(x) \o "%"

\* last_alert_time[alert_type] = t
Put(lat, alert_type, t) ==
    [k \in DOMAIN lat \cup {alert_type} |-> IF k = alert_type THEN t ELSE lat[k]]

\* a gate that lets every alert through
_should_send_alert_NoCooldown(lat, alert_type, t) ==
    [send |-> TRUE, last_alert_time |-> Put(lat, alert_type, t)]

\* a gate that restarts the window on a suppressed alert too
_should_send_alert_RefreshesAlways(lat, alert_type, t) ==
    IF alert_type \notin DOMAIN lat
    THEN [send |-> TRUE, last_alert_time |-> Put(lat, alert_type, t)]
    ELSE IF t - lat[alert_type] >= alert_cooldown
         THEN [send |-> TRUE, last_alert_time |-> Put(lat, alert_type, t)]
         ELSE [send |-> FALSE, last_alert_time |-> Put(lat, alert_type, t)]

\* ThreatDetector._should_send_alert(alert_type) at time t on the cooldown
\* map lat: the answer and the map after the call
_should_send_alert(lat, alert_type, t) ==
    IF alert_type \notin DOMAIN lat
    THEN [send |-> TRUE, last_alert_time |-> Put(lat, alert_type, t)]
    ELSE IF t - lat[alert_type] >= alert_cooldown
         THEN [send |-> TRUE, last_alert_time |-> Put(lat, alert_type, t)]
         ELSE [send |-> FALSE, last_alert_time |-> lat]

\* a system analysis that indexes the snapshot (system_data['cpu']) instead
\* of using .get: a snapshot without the field raises KeyError
_analyze_system_metrics_IndexesCpu(system_data, lat, t) ==
    IF ~IsDict(system_data) \/ "cpu" \notin DOMAIN system_data
    THEN \* except Exception
         [threats |-> <<ErrorThreat("system_analysis_error", t, "medium",
                                    <<"Error", "analyzing", "system", "metrics:">>)>>,
          last_alert_time |-> lat]
    ELSE LET rules == threat_patterns("resource_abuse")
             cpu == IF Get(system_data, "cpu", 0) > rules.cpu_threshold
                    THEN <<Threat("cpu_abuse", t, "resource_abuse", rules.severity,
                                  <<"High", "CPU", "usage", "detected:",
                                    Percent(system_data["cpu"])>>,
                                  "system_monitor",
                                  [cpu_usage |-> system_data["cpu"],
                                   threshold |-> rules.cpu_threshold])>>
                    ELSE <<>>
             memory == IF Get(system_data, "memory", 0) > rules.memory_threshold
                       THEN <<Threat("memory_abuse", t, "resource_abuse", rules.severity,
                                     <<"High", "memory", "usage", "detected:",
                                       Percent(system_data["memory"])>>,
                                     "system_monitor",
                                     [memory_usage |-> system_data["memory"],
                                      threshold |-> rules.memory_threshold])>>
                       ELSE <<>>
             disk == IF Get(system_data, "disk", 0) > rules.disk_threshold
                     THEN <<Threat("disk_abuse", t, "resource_abuse", rules.severity,
                                   <<"High", "disk", "usage", "detected:",
                                     Percent(system_data["disk"])>>,
                                   "system_monitor",
                                   [disk_usage |-> system_data["disk"],
                                    threshold |-> rules.disk_threshold])>>
                     ELSE <<>>
             many == Get(system_data, "processes", 0) > ProcessThreshold
             gate == _should_send_alert(lat, "process_anomaly", t)
             processes == IF many /\ gate.send
                          THEN <<Threat("process_anomaly", t, "suspicious_process",
                                        threat_patterns("suspicious_process").severity,
                                        <<"Unusually", "high", "number", "of", "processes:",
                                          ToString(system_data["processes"])>>,
                                        "system_monitor",
                                        [process_count |-> system_data["processes"],
                                         threshold |-> ProcessThreshold])>>
                          ELSE <<>>
         IN [threats |-> cpu \o memory \o disk \o processes,
             last_alert_time |-> IF many THEN gate.last_alert_time ELSE lat]

\* ThreatDetector._analyze_system_metrics(system_data) at time t on the
\* cooldown map lat: the returned threats and the map after the call
_analyze_system_metrics(system_data, lat, t) ==
    IF ~IsDict(system_data)
    THEN \* except Exception
         [threats |-> <<ErrorThreat("system_analysis_error", t, "medium",
                                    <<"Error", "analyzing", "system", "metrics:">>)>>,
          last_alert_time |-> lat]
    ELSE LET rules == threat_patterns("resource_abuse")
             cpu == IF Get(system_data, "cpu", 0) > rules.cpu_threshold
                    THEN <<Threat("cpu_abuse", t, "resource_abuse", rules.severity,
                                  <<"High", "CPU", "usage", "detected:",
                                    Percent(system_data["cpu"])>>,
                                  "system_monitor",
                                  [cpu_usage |-> system_data["cpu"],
                                   threshold |-> rules.cpu_threshold])>>
                    ELSE <<>>
             memory == IF Get(system_data, "memory", 0) > rules.memory_threshold
                       THEN <<Threat("memory_abuse", t, "resource_abuse", rules.severity,
                                     <<"High", "memory", "usage", "detected:",
                                       Percent(system_data["memory"])>>,
                                     "system_monitor",
                                     [memory_usage |-> system_data["memory"],
                                      threshold |-> rules.memory_threshold])>>
                       ELSE <<>>
             disk == IF Get(system_data, "disk", 0) > rules.disk_threshold
                     THEN <<Threat("disk_abuse", t, "resource_abuse", rules.severity,
                                   <<"High", "disk", "usage", "detected:",
                                     Percent(system_data["disk"])>>,
                                   "system_monitor",
                                   [disk_usage |-> system_data["disk"],
                                    threshold |-> rules.disk_threshold])>>
                     ELSE <<>>
             many == Get(system_data, "processes", 0) > ProcessThreshold
             gate == _should_send_alert(lat, "process_anomaly", t)
             processes == IF many /\ gate.send
                          THEN <<Threat("process_anomaly", t, "suspicious_process",
                                        threat_patterns("suspicious_process").severity,
                                        <<"Unusually", "high", "number", "of", "processes:",
                                          ToString(system_data["processes"])>>,
                                        "system_monitor",
                                        [process_count |-> system_data["processes"],
                                         threshold |-> ProcessThreshold])>>
                          ELSE <<>>
         IN [threats |-> cpu \o memory \o disk \o processes,
             last_alert_time |-> IF many THEN gate.last_alert_time ELSE lat]

\* a network analysis whose checks are chained with elif: the first breached
\* condition hides the others
_analyze_network_traffic_FirstOnly(network_data, t) ==
    IF ~IsDict(network_data)
    THEN \* except Exception
         <<ErrorThreat("network_analysis_error", t, "medium",
                       <<"Error", "analyzing", "network", "traffic:">>)>>
    ELSE LET rules == threat_patterns("network_anomaly")
             listening_ports == Get(network_data, "listening", 0)
             connections ==
                 IF Get(network_data, "connections", 0) > rules.connection_threshold
                 THEN <<Threat("network_anomaly", t, "network_anomaly", rules.severity,
                               <<"Excessive", "network", "connections", "detected:",
                                 ToString(network_data["connections"])>>,
                               "network_monitor",
                               [connection_count |-> network_data["connections"],
                                threshold |-> rules.connection_threshold])>>
                 ELSE <<>>
             ports ==
                 IF listening_ports > rules.port_scan_threshold
                 THEN <<Threat("port_scan", t, "network_anomaly", rules.severity,
                               <<"High", "number", "of", "listening", "ports", ":",
                                 ToString(listening_ports)>>,
                               "network_monitor",
                               [listening_ports |-> listening_ports,
                                threshold |-> rules.port_scan_threshold])>>
                 ELSE <<>>
             errors ==
                 IF \/ Get(network_data, "errors_in", 0) > ErrorRateThreshold
                    \/ Get(network_data, "errors_out", 0) > ErrorRateThreshold
                 THEN <<Threat("network_errors", t, "network_anomaly", "medium",
                               <<"High", "network", "error", "rate", "detected">>,
                               "network_monitor",
                               [errors_in |-> Get(network_data, "errors_in", 0),
                                errors_out |-> Get(network_data, "errors_out", 0)])>>
                 ELSE <<>>
         IN IF connections # <<>> THEN connections
            ELSE IF ports # <<>> THEN ports ELSE errors

\* ThreatDetector._analyze_network_traffic(network_data) at time t
_analyze_network_traffic(network_data, t) ==
    IF ~IsDict(network_data)
    THEN \* except Exception
         <<ErrorThreat("network_analysis_error", t, "medium",
                       <<"Error", "analyzing", "network", "traffic:">>)>>
    ELSE LET rules == threat_patterns("network_anomaly")
             listening_ports == Get(network_data, "listening", 0)
             connections ==
                 IF Get(network_data, "connections", 0) > rules.connection_threshold
                 THEN <<Threat("network_anomaly", t, "network_anomaly", rules.severity,
                               <<"Excessive", "network", "connections", "detected:",
                                 ToString(network_data["connections"])>>,
                               "network_monitor",
                               [connection_count |-> network_data["connections"],
                                threshold |-> rules.connection_threshold])>>
                 ELSE <<>>
             ports ==
                 IF listening_ports > rules.port_scan_threshold
                 THEN <<Threat("port_scan", t, "network_anomaly", rules.severity,
                               <<"High", "number", "of", "listening", "ports", ":",
                                 ToString(listening_ports)>>,
                               "network_monitor",
                               [listening_ports |-> listening_ports,
                                threshold |-> rules.port_scan_threshold])>>
                 ELSE <<>>
             errors ==
                 IF \/ Get(network_data, "errors_in", 0) > ErrorRateThreshold
                    \/ Get(network_data, "errors_out", 0) > ErrorRateThreshold
                 THEN <<Threat("network_errors", t, "network_anomaly", "medium",
                               <<"High", "network", "error", "rate", "detected">>,
                               "network_monitor",
                               [errors_in |-> Get(network_data, "errors_in", 0),
                                errors_out |-> Get(network_data, "errors_out", 0)])>>
                 ELSE <<>>
         IN connections \o ports \o errors

\* `pattern in message` on messages, which are sequences of words
Contains(message, pattern) ==
    \E i \in 1..(Len(message) - Len(pattern) + 1) :
        SubSeq(message, i, i + Len(pattern) - 1) = pattern

\* s[:n]
FirstN(s, n) == IF Len(s) > n THEN SubSeq(s, 1, n) ELSE s

\* a brute-force check that fires above the threshold only: `>` for `>=`
_analyze_security_events_Above(events, t) ==
    IF \E i \in 1..Len(events) : ~IsDict(events[i])
    THEN <<ErrorThreat("event_analysis_error", t, "medium",
                       <<"Error", "analyzing", "security", "events:">>)>>
    ELSE LET rules == threat_patterns("brute_force")
             high_severity ==
                 SelectSeq(events, LAMBDA e : Get(e, "severity", NoneStr) = "high")
             failed_logins ==
                 SelectSeq(events, LAMBDA e :
                     Contains(Get(e, "message", <<>>), <<"Failed", "login", "attempt">>))
             high ==
                 IF Len(high_severity) > 0
                 THEN <<Threat("high_severity_events", t, "security_event", "high",
                               <<"Multiple", "high", "severity", "security", "events",
                                 "detected:", ToString(Len(high_severity))>>,
                               "security_monitor",
                               [high_severity_count |-> Len(high_severity),
                                events |-> FirstN(high_severity, EventPreview)])>>
                 ELSE <<>>
             brute ==
                 IF Len(failed_logins) > rules.failed_logins_threshold
                 THEN <<Threat("brute_force", t, "brute_force", rules.severity,
                               <<"Potential", "brute", "force", "attack", "detected:",
                                 ToString(Len(failed_logins)), "failed", "login",
                                 "attempts">>,
                               "security_monitor",
                               [failed_attempts |-> Len(failed_logins),
                                threshold |-> rules.failed_logins_threshold])>>
                 ELSE <<>>
         IN high \o brute

\* ThreatDetector._analyze_security_events(events) at time t
_analyze_security_events(events, t) ==
    IF \E i \in 1..Len(events) : ~IsDict(events[i])
    THEN \* except Exception: e.get raises in the first comprehension
         <<ErrorThreat("event_analysis_error", t, "medium",
                       <<"Error", "analyzing", "security", "events:">>)>>
    ELSE LET rules == threat_patterns("brute_force")
             high_severity ==
                 SelectSeq(events, LAMBDA e : Get(e, "severity", NoneStr) = "high")
             failed_logins ==
                 SelectSeq(events, LAMBDA e :
                     Contains(Get(e, "message", <<>>), <<"Failed", "login", "attempt">>))
             high ==
                 IF Len(high_severity) > 0
                 THEN <<Threat("high_severity_events", t, "security_event", "high",
                               <<"Multiple", "high", "severity", "security", "events",
                                 "detected:", ToString(Len(high_severity))>>,
                               "security_monitor",
                               [high_severity_count |-> Len(high_severity),
                                events |-> FirstN(high_severity, EventPreview)])>>
                 ELSE <<>>
             brute ==
                 IF Len(failed_logins) >= rules.failed_logins_threshold
                 THEN <<Threat("brute_force", t, "brute_force", rules.severity,
                               <<"Potential", "brute", "force", "attack", "detected:",
                                 ToString(Len(failed_logins)), "failed", "login",
                                 "attempts">>,
                               "security_monitor",
                               [failed_attempts |-> Len(failed_logins),
                                threshold |-> rules.failed_logins_threshold])>>
                 ELSE <<>>
         IN high \o brute

\* a trend check that also fires on a rise of exactly the threshold
RapidIncrease_AtThreshold(cpu_trend) ==
    Len(cpu_trend) >= 2 /\ cpu_trend[Len(cpu_trend)] - cpu_trend[1] >= CpuRiseThreshold

\* `len(cpu_trend) >= 2 and cpu_trend[-1] - cpu_trend[0] > 30`
RapidIncrease(cpu_trend) ==
    Len(cpu_trend) >= 2 /\ cpu_trend[Len(cpu_trend)] - cpu_trend[1] > CpuRiseThreshold

\* a trend window of the last two snapshots
recent_LastTwo(history) == LastN(history, TrendWindow - 1)

\* `security_data['system_metrics'][-3:]`, `security_data['network_traffic'][-3:]`
recent(history) == LastN(history, TrendWindow)

\* ThreatDetector._analyze_patterns(security_data) at time t
_analyze_patterns(data, t) ==
    LET error == ErrorThreat("pattern_analysis_error", t, "low",
                             <<"Error", "analyzing", "patterns:">>)
        system_metrics == Get(data, "system_metrics", <<>>)
        network_traffic == Get(data, "network_traffic", <<>>)
        recent_metrics == recent(system_metrics)
        recent_traffic == recent(network_traffic)
        cpu_raises == /\ Len(system_metrics) >= TrendWindow
                      /\ \E i \in 1..Len(recent_metrics) : ~IsDict(recent_metrics[i])
        net_raises == /\ Len(network_traffic) >= TrendWindow
                      /\ \E i \in 1..Len(recent_traffic) : ~IsDict(recent_traffic[i])
        cpu_trend == [i \in 1..Len(recent_metrics) |-> Get(recent_metrics[i], "cpu", 0)]
        connection_counts ==
            [i \in 1..Len(recent_traffic) |-> Get(recent_traffic[i], "connections", 0)]
        cpu == IF Len(system_metrics) >= TrendWindow /\ RapidIncrease(cpu_trend)
               THEN <<Threat("rapid_cpu_increase", t, "resource_abuse", "medium",
                             <<"Rapid", "CPU", "usage", "increase", "detected">>,
                             "pattern_analyzer",
                             [cpu_trend |-> cpu_trend,
                              increase |-> cpu_trend[Len(cpu_trend)] - cpu_trend[1]])>>
               ELSE <<>>
        spike == IF /\ Len(network_traffic) >= TrendWindow
                    /\ Len(connection_counts) >= 2
                    /\ connection_counts[Len(connection_counts)] - connection_counts[1]
                          > ConnectionSpikeThreshold
                 THEN <<Threat("network_spike", t, "network_anomaly", "medium",
                               <<"Sudden", "network", "traffic", "spike", "detected">>,
                               "pattern_analyzer",
                               [connection_trend |-> connection_counts,
                                spike |-> connection_counts[Len(connection_counts)]
                                             - connection_counts[1]])>>
                 ELSE <<>>
    IN IF cpu_raises
       THEN <<error>>
       ELSE IF net_raises
            THEN cpu \o <<error>>
            ELSE cpu \o spike

\* the Threat of the outer except block of analyze_data
PipelineError(t) ==
    ErrorThreat("threat_error", t, "critical", <<"Error", "in", "threat", "analysis:">>)

\* what the ghost keeps of a returned threat
Emitted(threat, t) == [id |-> threat.id, type |-> threat.type, at |-> t]

RetThreats(threats) == [tag |-> "Threats", val |-> threats]

\* ThreatDetector.analyze_data(security_data); the entry of analysis_history
\* is kept without its analysis_duration_ms, a random number nothing reads
analyze_data(data) ==
    LET idle == [threats |-> <<>>, last_alert_time |-> last_alert_time]
        system == IF Truthy(data, "system_metrics")
                  THEN _analyze_system_metrics(Last(data["system_metrics"]),
                                               last_alert_time, now)
                  ELSE idle
        network == IF Truthy(data, "network_traffic")
                   THEN _analyze_network_traffic(Last(data["network_traffic"]), now)
                   ELSE <<>>
        events == IF Truthy(data, "security_events")
                  THEN _analyze_security_events(data["security_events"], now)
                  ELSE <<>>
        threats == IF IsDict(data)
                   THEN system.threats \o network \o events \o _analyze_patterns(data, now)
                   ELSE \* security_data.get raises: the outer except block
                        <<PipelineError(now)>>
    IN /\ call' = [op |-> "analyze_data", id |-> UnknownId, user |-> NoneStr]
       /\ security_data' = data
       /\ ret' = RetThreats(threats)
       /\ last_alert_time' = IF IsDict(data) THEN system.last_alert_time ELSE last_alert_time
       /\ analysis_history' =
             IF IsDict(data)
             THEN LastN(Append(analysis_history,
                               [timestamp |-> now, threats_found |-> Len(threats)]),
                        AnalysisCap)
             ELSE analysis_history
       /\ emitted' = Append(emitted, [i \in 1..Len(threats) |-> Emitted(threats[i], now)])
       /\ UNCHANGED now

----------------------------------------------------------------------------
\* The inputs of the detector and its specifications.

\* system-metrics histories hold at most MaxSnapshots snapshots
MaxSnapshots == 4
\* event lists hold at most MaxEvents events
MaxEvents == 6
\* number of analyze_data calls in one behaviour of SpecDetector
MaxAnalyses == 1
\* number of analyze_data calls in one behaviour of SpecCooldown
MaxCooldownCalls == 3
\* the clock of SpecCooldown runs over 0..MaxCooldownTime
MaxCooldownTime == 120

\* a collector's system snapshot, nested fields flattened:
\* cpu = cpu.usage_percent, processes = processes.total_count, ...
SystemSnapshot(cpu, processes) ==
    [cpu |-> cpu, memory |-> 50, disk |-> 50, processes |-> processes]

\* a collector's network snapshot: connections = connections.total,
\* listening = connections.by_status.listening, errors_* = traffic.errors_*
NetworkSnapshot(connections, listening) ==
    [connections |-> connections, listening |-> listening, errors_in |-> 0, errors_out |-> 0]

\* what a collector returns when it fails: no metric at all
ErrorSnapshot == [status |-> "error"]

\* log events as LogCollector builds them
FailedLoginEvent ==
    [severity |-> "medium", message |-> <<"Failed", "login", "attempt", "for", "user", "a">>]
MalwareScanEvent ==
    [severity |-> "low", message |-> <<"Malware", "scan", "completed">>]
FirewallEvent ==
    [severity |-> "high", message |-> <<"Firewall", "rule", "triggered">>]

\* the security_data dict of app.py, the keys the detector reads
SecurityData(system_metrics, network_traffic, security_events) ==
    [system_metrics |-> system_metrics, network_traffic |-> network_traffic,
     security_events |-> security_events]

\* all sequences over S of length at most n
SeqsUpTo(S, n) == UNION {[1..k -> S] : k \in 0..n}

\* CPU readings that rise by 30 and by 31 points
CpuValues == {40, 70, 71}

SystemHistories ==
    {[i \in DOMAIN h |-> SystemSnapshot(h[i], 100)] : h \in SeqsUpTo(CpuValues, MaxSnapshots)}

EventLists == SeqsUpTo({FailedLoginEvent, MalwareScanEvent}, MaxEvents)

\* the scenario of three system snapshots with CPU 40, 50, 75
RisingCpuScenario ==
    <<SystemSnapshot(40, 100), SystemSnapshot(50, 100), SystemSnapshot(75, 100)>>

\* histories at the CPU threshold, the 40/50/75 scenario, and histories with a
\* snapshot that is no dict or carries no metric
SpecialSystem ==
    {<<SystemSnapshot(95, 100)>>,
     <<SystemSnapshot(96, 100)>>,
     RisingCpuScenario,
     <<NotADict>>,
     <<NotADict, SystemSnapshot(40, 100), SystemSnapshot(71, 100)>>,
     <<ErrorSnapshot>>}

SpecialNetwork ==
    {<<>>,
     <<NetworkSnapshot(1600, 60)>>,
     <<NotADict>>,
     <<NotADict, NetworkSnapshot(100, 10), NetworkSnapshot(700, 10)>>}

SpecialEvents == {<<>>, <<FirewallEvent>>, <<NotADict>>}

\* the security_data handed to analyze_data in SpecDetector
SecurityDataInputs ==
    {SecurityData(s, <<>>, <<>>) : s \in SystemHistories}
        \cup {SecurityData(s, <<>>, e) :
                 s \in {<<>>, <<SystemSnapshot(96, 100)>>}, e \in EventLists}
        \cup {SecurityData(s, n, e) :
                 s \in SpecialSystem, n \in SpecialNetwork, e \in SpecialEvents}
        \cup {NotADict}

\* The detector alone: analyze_data on every input; the manager is idle.
NextDetector ==
    \E data \in SecurityDataInputs :
        Len(emitted) < MaxAnalyses /\ analyze_data(data) /\ UNCHANGED <<mgrVars, appVars>>

SpecDetector == Init /\ [][NextDetector]_vars

\* process counts at and above the threshold of the suspicious-process check
ProcessCounts == {ProcessThreshold, ProcessThreshold + 1}

CooldownInputs ==
    {SecurityData(<<SystemSnapshot(40, p)>>, <<>>, <<>>) : p \in ProcessCounts}

\* the clock moves by just under a cooldown window or by a whole one
ClockSteps == {alert_cooldown - 1, alert_cooldown}

Advance(d) ==
    /\ now + d <= MaxCooldownTime
    /\ now' = now + d
    /\ call' = [op |-> "tick", id |-> UnknownId, user |-> NoneStr]
    /\ ret' = RetNone
    /\ UNCHANGED <<mgrVars, detVars, appVars>>

\* The detector over time: analyze_data calls on snapshots with few and with
\* many processes, the clock moving between them.
NextCooldown ==
    \/ \E data \in CooldownInputs :
          Len(emitted) < MaxCooldownCalls /\ analyze_data(data) /\ UNCHANGED <<mgrVars, appVars>>
    \/ \E d \in ClockSteps : Advance(d)

SpecCooldown == Init /\ [][NextCooldown]_vars

\* number of analyze_data calls in one behaviour of SpecRepeat
MaxRepeatCalls == 2

\* snapshots on which several checks fire at once, and a security_data that
\* is no dict
RepeatInputs ==
    {SecurityData(<<SystemSnapshot(c, p)>>, n, e) :
        c \in {40, 96}, p \in ProcessCounts,
        n \in {<<>>, <<NetworkSnapshot(1600, 60)>>},
        e \in {<<>>, <<FirewallEvent>>}}
        \cup {NotADict}

\* The detector called again and again, within one clock second and across
\* seconds.
NextRepeat ==
    \/ \E data \in RepeatInputs :
          Len(emitted) < MaxRepeatCalls /\ analyze_data(data) /\ UNCHANGED <<mgrVars, appVars>>
    \/ Tick /\ UNCHANGED <<detVars, appVars>>

SpecRepeat == Init /\ [][NextRepeat]_vars

----------------------------------------------------------------------------
\* The AlertManager under threads.  AlertManager takes no lock and the
\* interpreter switches threads between statements, so a handler is a chain
\* of steps here: one per statement that reads or writes self.alerts,
\* self.alert_history or an alert dict.  Statements that touch local
\* variables only (building the dict, print, return) go with the step before.
\* In this specification `removed` keeps the whole alert objects.

\* number of alerts the driving loop creates in one behaviour of SpecThreads
MaxThreadAlerts == 2
\* number of calls each request handler makes in one behaviour of SpecThreads
MaxHandlerCalls == 1

\* the threats the driving loop hands to create_alert
ThreadThreats(t) == {CpuThreat(t, "96%")}

\* the current_metrics of the auto_resolve_alerts calls: CPU back at 65
ThreadMetrics ==
    [system_metrics |-> <<[cpu |-> 65, memory |-> 50, disk |-> 50]>>,
     network_traffic |-> <<>>]

\* the alert object with identity uid, in the active set or out of it
Obj(uid) ==
    IF \E j \in 1..Len(alerts) : alerts[j].uid = uid
    THEN alerts[CHOOSE j \in 1..Len(alerts) : alerts[j].uid = uid]
    ELSE removed[CHOOSE j \in 1..Len(removed) : removed[j].uid = uid]

\* alert[field] = val on the object uid, in the list as that holds it
Store(as, uid, field, val) ==
    [j \in 1..Len(as) |->
        IF as[j].uid = uid THEN [as[j] EXCEPT ![field] = val] ELSE as[j]]

\* the assignment alert[field] = val of thread th, which then is at statement pc
Assign(th, field, val, pc) ==
    /\ alerts' = Store(alerts, threads[th].alert, field, val)
    /\ removed' = Store(removed, threads[th].alert, field, val)
    /\ threads' = [threads EXCEPT ![th].pc = pc]
    /\ UNCHANGED <<alert_history, nCreated, now, call, ret>>

\* the call of thread th returns value
Return(th, value) ==
    /\ threads' = [threads EXCEPT ![th].pc = "returned", ![th].ret = value]
    /\ call' = [op |-> threads[th].op, id |-> threads[th].id, user |-> th]
    /\ ret' = value

\* resolve_alert is over with value: it returns to its caller, which is the
\* loop of auto_resolve_alerts (line 152: resolved_count += 1, next alert) or
\* the request handler
EndCall(th, value) ==
    IF threads[th].op = "auto_resolve_alerts"
    THEN /\ threads' = [threads EXCEPT ![th].pc = "L145", ![th].k = @ + 1]
         /\ UNCHANGED <<call, ret>>
    ELSE Return(th, value)

\* the alert objects whose create_alert call has returned
Created ==
    {u \in 1..nCreated :
        \A th \in Threads :
            ~(threads[th].op = "create_alert" /\ threads[th].pc # "returned"
                 /\ threads[th].alert = u)}

\* thread th calls acknowledge_alert, resolve_alert or escalate_alert on alert_id
Invoke(th, op, alert_id) ==
    /\ threads[th].pc \in {"idle", "returned"}
    /\ threads[th].calls < MaxHandlerCalls
    /\ threads' = [threads EXCEPT ![th] =
          [ThreadIdle EXCEPT !.pc = IF op = "auto_resolve_alerts" THEN "L144" ELSE "find",
                             !.op = op,
                             !.id = alert_id,
                             !.seen = {alerts[j].uid : j \in {j \in 1..Len(alerts) :
                                          alerts[j].id = alert_id /\ alerts[j].uid \in Created}},
                             !.calls = threads[th].calls + 1]]
    /\ UNCHANGED <<mgrVars, now, call, ret>>

\* the statement after `alert = self._find_alert(alert_id)` when it found one
AfterFind(op) ==
    CASE op = "acknowledge_alert" -> "L95"
      [] op = "escalate_alert" -> "L129"
      [] OTHER -> "L110"

\* one turn of `for alert in self.alerts` in _find_alert: the list iterator
\* keeps a position and reads the list as it is now
_find_alert_next(th) ==
    LET t == threads[th]
    IN /\ t.pc = "find"
       /\ IF t.i < Len(alerts)
          THEN /\ threads' = IF alerts[t.i + 1].id = t.id
                             THEN [threads EXCEPT ![th].alert = alerts[t.i + 1].uid,
                                                  ![th].pc = AfterFind(t.op)]
                             ELSE [threads EXCEPT ![th].i = t.i + 1]
               /\ UNCHANGED <<call, ret>>
          ELSE \* return None, and the handler returns False
               EndCall(th, RetFalse)
       /\ UNCHANGED <<mgrVars, now>>

\* acknowledge_alert, lines 95-99
acknowledge_alert_95(th) ==
    threads[th].pc = "L95" /\ Assign(th, "acknowledged", TRUE, "L96")

acknowledge_alert_96(th) ==
    threads[th].pc = "L96" /\ Assign(th, "acknowledged_by", th, "L97")

acknowledge_alert_97(th) ==
    /\ threads[th].pc = "L97"
    /\ alerts' = Store(alerts, threads[th].alert, "acknowledged_at", now)
    /\ removed' = Store(removed, threads[th].alert, "acknowledged_at", now)
    /\ Return(th, RetTrue)
    /\ UNCHANGED <<alert_history, nCreated, now>>

\* resolve_alert, lines 110-119
resolve_alert_110(th) ==
    threads[th].pc = "L110" /\ Assign(th, "resolved", TRUE, "L111")

resolve_alert_111(th) ==
    threads[th].pc = "L111" /\ Assign(th, "resolved_at", now, "L112")

resolve_alert_112(th) ==
    threads[th].pc = "L112" /\ Assign(th, "resolution_notes", NoneStr, "L113")

resolve_alert_113(th) ==
    threads[th].pc = "L113" /\ Assign(th, "status", "resolved", "L116")

\* self.alerts.remove(alert): ValueError, hence `return False`, when no
\* element of the list equals the alert
resolve_alert_116(th) ==
    LET alert == Obj(threads[th].alert)
        hits == {j \in 1..Len(alerts) : SameDict(alerts[j], alert)}
    IN /\ threads[th].pc = "L116"
       /\ IF hits # {}
          THEN /\ alerts' = ListRemove(alerts, alert)
               /\ removed' = Append(removed, alerts[CHOOSE j \in hits : \A h \in hits : j <= h])
               /\ EndCall(th, RetTrue)
          ELSE /\ UNCHANGED <<alerts, removed>>
               /\ EndCall(th, RetFalse)
       /\ UNCHANGED <<alert_history, nCreated, now>>

\* escalate_alert, lines 129-133
escalate_alert_129(th) ==
    /\ threads[th].pc = "L129"
    /\ IF Obj(threads[th].alert).status = "active"
       THEN threads' = [threads EXCEPT ![th].pc = "L130"] /\ UNCHANGED <<call, ret>>
       ELSE Return(th, RetFalse)
    /\ UNCHANGED <<mgrVars, now>>

escalate_alert_130(th) ==
    threads[th].pc = "L130" /\ Assign(th, "status", "escalated", "L131")

escalate_alert_131(th) ==
    /\ threads[th].pc = "L131"
    /\ alerts' = Store(alerts, threads[th].alert, "escalation_time", [iso |-> TRUE, at |-> now])
    /\ removed' = Store(removed, threads[th].alert, "escalation_time", [iso |-> TRUE, at |-> now])
    /\ Return(th, RetTrue)
    /\ UNCHANGED <<alert_history, nCreated, now>>

\* auto_resolve_alerts, line 144: `self.alerts[:]`
auto_resolve_alerts_144(th) ==
    /\ threads[th].pc = "L144"
    /\ threads' = [threads EXCEPT ![th].copy = [j \in 1..Len(alerts) |-> alerts[j].uid],
                                  ![th].k = 1,
                                  ![th].pc = "L145"]
    /\ UNCHANGED <<mgrVars, now, call, ret>>

\* auto_resolve_alerts, lines 144-158: the next alert of the copy, the test
\* whether to resolve it, and the call of resolve_alert
auto_resolve_alerts_145(th) ==
    LET t == threads[th]
    IN /\ t.pc = "L145"
       /\ IF t.k > Len(t.copy)
          THEN Return(th, RetNone)
          ELSE /\ threads' = IF AutoResolves(Obj(t.copy[t.k]), ThreadMetrics)
                             THEN [threads EXCEPT ![th].id = Obj(t.copy[t.k]).id,
                                                  ![th].i = 0,
                                                  ![th].alert = 0,
                                                  ![th].pc = "find"]
                             ELSE [threads EXCEPT ![th].k = t.k + 1]
               /\ UNCHANGED <<call, ret>>
       /\ UNCHANGED <<mgrVars, now>>

\* create_alert, lines 46-73: the dict is built and appended to self.alerts
create_alert_73(th, threat, rnd) ==
    LET alert == NewAlert(threat, nCreated + 1, now, rnd)
    IN /\ threads[th].pc \in {"idle", "returned"}
       /\ nCreated < MaxThreadAlerts
       /\ alerts' = Append(alerts, alert)
       /\ nCreated' = nCreated + 1
       /\ threads' = [threads EXCEPT ![th] =
             [ThreadIdle EXCEPT !.pc = "L76", !.op = "create_alert",
                                !.id = <<now, rnd>>, !.alert = nCreated + 1]]
       /\ UNCHANGED <<alert_history, removed, now, call, ret>>

\* create_alert, line 76: the copy is taken of the dict as it is by now
create_alert_76(th) ==
    /\ threads[th].op = "create_alert" /\ threads[th].pc = "L76"
    /\ alert_history' = Append(alert_history, Obj(threads[th].alert))
    /\ threads' = [threads EXCEPT ![th].pc = "L79"]
    /\ UNCHANGED <<alerts, removed, nCreated, now, call, ret>>

\* create_alert, lines 79-84
create_alert_79(th) ==
    /\ threads[th].op = "create_alert" /\ threads[th].pc = "L79"
    /\ alert_history' = IF Len(alert_history) > HistoryCap
                        THEN LastN(alert_history, HistoryCap)
                        ELSE alert_history
    /\ Return(th, RetAlert(threads[th].alert))
    /\ UNCHANGED <<alerts, removed, nCreated, now>>

\* the ids the request handlers pass: those of the alerts built so far
HandlerIds == AlertIds \ {UnknownId}

\* The driving loop creating alerts while two request handlers call the
\* lifecycle operations, every interleaving of their statements.
NextThreads ==
    \/ \E threat \in ThreadThreats(now), rnd \in Rands :
          create_alert_73("loop", threat, rnd) /\ UNCHANGED <<detVars, threat_alerts, loop>>
    \/ create_alert_76("loop") /\ UNCHANGED <<detVars, threat_alerts, loop>>
    \/ create_alert_79("loop") /\ UNCHANGED <<detVars, threat_alerts, loop>>
    \/ \E th \in Handlers, id \in HandlerIds,
          op \in {"acknowledge_alert", "resolve_alert", "escalate_alert"} :
          Invoke(th, op, id) /\ UNCHANGED <<detVars, threat_alerts, loop>>
    \/ \E th \in Handlers :
          Invoke(th, "auto_resolve_alerts", UnknownId)
              /\ UNCHANGED <<detVars, threat_alerts, loop>>
    \/ \E th \in Handlers :
          /\ \/ _find_alert_next(th)
             \/ acknowledge_alert_95(th)
             \/ acknowledge_alert_96(th)
             \/ acknowledge_alert_97(th)
             \/ resolve_alert_110(th)
             \/ resolve_alert_111(th)
             \/ resolve_alert_112(th)
             \/ resolve_alert_113(th)
             \/ resolve_alert_116(th)
             \/ escalate_alert_129(th)
             \/ escalate_alert_130(th)
             \/ escalate_alert_131(th)
             \/ auto_resolve_alerts_144(th)
             \/ auto_resolve_alerts_145(th)
          /\ UNCHANGED <<detVars, threat_alerts, loop>>

SpecThreads == Init /\ [][NextThreads]_vars

----------------------------------------------------------------------------
\* The ThreatDetector under threads.  ThreatDetector takes no lock either;
\* the statements of analyze_data that read or write self.last_alert_time
\* and self.analysis_history are steps of their own, the checks on the
\* snapshot are local.  A call is over within its clock second.

\* the cooldown map on which _should_send_alert('process_anomaly') at time t
\* gives the answer send
GateMap(send, t) ==
    IF send THEN [type \in {} |-> 0] ELSE [type \in {"process_anomaly"} |-> t]

\* whether the pass on data reaches _should_send_alert (line 144)
ReachesGate(data) ==
    /\ IsDict(data)
    /\ Truthy(data, "system_metrics")
    /\ IsDict(Last(data["system_metrics"]))
    /\ Get(Last(data["system_metrics"]), "processes", 0) > ProcessThreshold

\* the threats analyze_data(data) collects at time t when _should_send_alert
\* answered send (lines 42-63)
ThreatsGiven(data, send, t) ==
    LET system == IF Truthy(data, "system_metrics")
                  THEN _analyze_system_metrics(Last(data["system_metrics"]),
                                               GateMap(send, t), t).threats
                  ELSE <<>>
        network == IF Truthy(data, "network_traffic")
                   THEN _analyze_network_traffic(Last(data["network_traffic"]), t)
                   ELSE <<>>
        events == IF Truthy(data, "security_events")
                  THEN _analyze_security_events(data["security_events"], t)
                  ELSE <<>>
    IN system \o network \o events \o _analyze_patterns(data, t)

\* thread th calls analyze_data(data) and runs up to its first statement on
\* shared state
analyze_data_enter(th, data) ==
    /\ threads[th].pc \in {"idle", "returned"}
    /\ threads[th].calls < MaxHandlerCalls
    /\ IsDict(data)
    /\ threads' = [threads EXCEPT ![th] =
          [ThreadIdle EXCEPT !.pc = IF ReachesGate(data) THEN "L401" ELSE "L66",
                             !.op = "analyze_data",
                             !.arg = data,
                             !.calls = threads[th].calls + 1]]
    /\ security_data' = data
    /\ UNCHANGED <<last_alert_time, analysis_history, emitted, now, call, ret>>

\* _should_send_alert, lines 400-401
_should_send_alert_401(th) ==
    /\ threads[th].pc = "L401"
    /\ threads' = [threads EXCEPT ![th].current_time = now,
                                  ![th].pc = IF "process_anomaly" \notin DOMAIN last_alert_time
                                             THEN "L402" ELSE "L405"]
    /\ UNCHANGED <<detVars, now, call, ret>>

\* _should_send_alert, lines 402-403
_should_send_alert_402(th) ==
    /\ threads[th].pc = "L402"
    /\ last_alert_time' = Put(last_alert_time, "process_anomaly", threads[th].current_time)
    /\ threads' = [threads EXCEPT ![th].send = TRUE, ![th].pc = "L66"]
    /\ UNCHANGED <<security_data, analysis_history, emitted, now, call, ret>>

\* _should_send_alert, line 405 (and 409)
_should_send_alert_405(th) ==
    /\ threads[th].pc = "L405"
    /\ threads' =
          IF threads[th].current_time - last_alert_time["process_anomaly"] >= alert_cooldown
          THEN [threads EXCEPT ![th].pc = "L406"]
          ELSE [threads EXCEPT ![th].send = FALSE, ![th].pc = "L66"]
    /\ UNCHANGED <<detVars, now, call, ret>>

\* _should_send_alert, lines 406-407
_should_send_alert_406(th) ==
    /\ threads[th].pc = "L406"
    /\ last_alert_time' = Put(last_alert_time, "process_anomaly", threads[th].current_time)
    /\ threads' = [threads EXCEPT ![th].send = TRUE, ![th].pc = "L66"]
    /\ UNCHANGED <<security_data, analysis_history, emitted, now, call, ret>>

\* analyze_data, lines 66-70
analyze_data_66(th) ==
    /\ threads[th].pc = "L66"
    /\ analysis_history' =
          Append(analysis_history,
                 [timestamp |-> now,
                  threats_found |-> Len(ThreatsGiven(threads[th].arg, threads[th].send, now))])
    /\ threads' = [threads EXCEPT ![th].pc = "L74"]
    /\ UNCHANGED <<security_data, last_alert_time, emitted, now, call, ret>>

\* analyze_data, lines 74-77
analyze_data_74(th) ==
    LET threats == ThreatsGiven(threads[th].arg, threads[th].send, now)
    IN /\ threads[th].pc = "L74"
       /\ analysis_history' = LastN(analysis_history, AnalysisCap)
       /\ emitted' = Append(emitted, [i \in 1..Len(threats) |-> Emitted(threats[i], now)])
       /\ Return(th, RetThreats(threats))
       /\ UNCHANGED <<security_data, last_alert_time, now>>

\* Two threads calling analyze_data on snapshots with few and with many
\* processes, every interleaving of their statements; the clock moves while
\* no call is in progress.
NextCooldownRace ==
    \/ \E th \in Handlers, data \in CooldownInputs :
          analyze_data_enter(th, data) /\ UNCHANGED <<mgrVars, threat_alerts, loop>>
    \/ \E th \in Handlers :
          /\ \/ _should_send_alert_401(th)
             \/ _should_send_alert_402(th)
             \/ _should_send_alert_405(th)
             \/ _should_send_alert_406(th)
             \/ analyze_data_66(th)
             \/ analyze_data_74(th)
          /\ UNCHANGED <<mgrVars, threat_alerts, loop>>
    \/ \E d \in ClockSteps :
          (\A th \in Threads : threads[th].pc \in {"idle", "returned"}) /\ Advance(d)

SpecCooldownRace == Init /\ [][NextCooldownRace]_vars

----------------------------------------------------------------------------
\* The whole program (src/app.py): the driving loop, statement group by
\* statement group, and the control endpoints, which the request handlers run
\* between any two of them.

\* app.py:133 `len(security_data['system_metrics']) > 100` (and 140)
MetricsCap == 100
\* app.py:147 `len(security_data['security_events']) > 200`
EventsCap == 200
\* app.py:162 time.sleep(5)
SleepSeconds == 5
\* app.py:166 time.sleep(10)
ErrorSleepSeconds == 10

\* number of cycles of the driving loop in one behaviour of SpecApp
MaxCycles == 2
\* the longest a cycle takes, the time of the collectors included
LongCycleSeconds == 300
\* the clock of SpecApp runs over 0..MaxAppTime
MaxAppTime == 310

\* what the three collectors hand to one cycle
AppSnapshots ==
    {[system |-> SystemSnapshot(c, 100), network |-> NetworkSnapshot(100, 10), events |-> e] :
        c \in {40, 96}, e \in {<<>>, <<FirewallEvent>>}}

\* the time from one cycle to the next: the sleep of line 162 or of line 166,
\* or longer when the collectors are slow
CycleSeconds == {SleepSeconds, ErrorSleepSeconds, LongCycleSeconds}

\* socketio.emit(event, payload), a call into the Socket.IO library: it returns,
\* or, the payload holding a datetime (the escalation_time of an alert) that
\* the json encoder of the library refuses while a client is connected, it
\* raises TypeError
EmitOutcomes(has_datetime) == IF has_datetime THEN {"returns", "raises"} ELSE {"returns"}

\* the alert dict uid holds a datetime: its escalation_time, as create_alert
\* built it
HasDatetime(uid) ==
    \E j \in 1..Len(alerts) : alerts[j].uid = uid /\ ~alerts[j].escalation_time.iso

\* background_data_collection, lines 129-148: the snapshots are appended and
\* the lists trimmed
collect(snap) ==
    /\ loop.pc = "collect"
    /\ Len(emitted) < MaxCycles
    /\ security_data' =
          [system_metrics |-> LastN(Append(security_data["system_metrics"], snap.system),
                                    MetricsCap),
           network_traffic |-> LastN(Append(security_data["network_traffic"], snap.network),
                                     MetricsCap),
           security_events |-> IF snap.events # <<>>
                               THEN LastN(security_data["security_events"] \o snap.events,
                                          EventsCap)
                               ELSE security_data["security_events"]]
    /\ loop' = [loop EXCEPT !.pc = "analyze"]
    /\ call' = [op |-> "collect", id |-> UnknownId, user |-> "loop"]
    /\ ret' = RetNone
    /\ UNCHANGED <<mgrVars, last_alert_time, analysis_history, emitted, now,
                   threads, threat_alerts>>

\* line 151: threats = threat_detector.analyze_data(security_data)
detect ==
    /\ loop.pc = "analyze"
    /\ analyze_data(security_data)
    /\ loop' = [pc |-> IF Len(ret'.val) > 0 THEN "create" ELSE "sleep",
                threats |-> ret'.val, k |-> 1]
    /\ UNCHANGED <<mgrVars, threads, threat_alerts>>

\* lines 153-157, one turn of `for threat in threats`: the alert is created,
\* the reference create_alert returned (None too) is appended, and the alert
\* is emitted; when the emit raises, the except block of line 164 ends the
\* cycle
create(rnd, emit) ==
    /\ loop.pc = "create"
    /\ create_alert(loop.threats[loop.k], rnd)
    /\ threat_alerts' = Append(threat_alerts, IF ret'.tag = "Alert" THEN ret'.val ELSE 0)
    /\ emit \in EmitOutcomes(ret'.tag = "Alert")
    /\ loop' = IF emit = "returns" /\ loop.k < Len(loop.threats)
               THEN [loop EXCEPT !.k = loop.k + 1]
               ELSE [loop EXCEPT !.pc = "sleep"]
    /\ UNCHANGED <<detVars, threads>>

\* lines 160-162: the cycle ends and the next one starts d seconds later
sleep(d) ==
    /\ loop.pc = "sleep"
    /\ now + d <= MaxAppTime
    /\ now' = now + d
    /\ loop' = [pc |-> "collect", threats |-> <<>>, k |-> 0]
    /\ call' = [op |-> "sleep", id |-> UnknownId, user |-> "loop"]
    /\ ret' = RetNone
    /\ UNCHANGED <<mgrVars, detVars, threads, threat_alerts>>

\* alert[key] = val on the object uid, the key being new or not
SetItem(as, uid, key, val) ==
    [j \in 1..Len(as) |->
        IF as[j].uid = uid
        THEN [f \in DOMAIN as[j] \cup {key} |-> IF f = key THEN val ELSE as[j][f]]
        ELSE as[j]]

\* what an endpoint answers: the HTTP status and the alert it acted on
Response(status, uid) == [tag |-> status, val |-> uid]

\* next((t for t in security_data['threat_alerts'] if t['id'] == threat_id),
\* None): the position of the first match, 0 for None, -1 when the search
\* meets a None entry first (t['id'] raises TypeError)
FindThreat(threat_id) ==
    LET at(k) == IF threat_alerts[k] = 0 THEN "none"
                 ELSE IF Obj(threat_alerts[k]).id = threat_id THEN "hit" ELSE "miss"
        stops == {k \in 1..Len(threat_alerts) : at(k) # "miss"}
    IN IF stops = {}
       THEN 0
       ELSE LET k == CHOOSE k \in stops : \A h \in stops : k <= h
            IN IF at(k) = "hit" THEN k ELSE -1

\* an endpoint of app.py, lines 66-106: it sets the status and the time of
\* the threat it finds, on the alert dict itself, and emits security_data;
\* when the emit raises, the except block answers 500
Endpoint(th, op, threat_id, status, stamp, emit) ==
    LET k == FindThreat(threat_id)
    IN /\ threads[th].pc \in {"idle", "returned"}
       /\ threads[th].calls < MaxHandlerCalls
       /\ threads' = [threads EXCEPT ![th].calls = @ + 1]
       /\ call' = [op |-> op, id |-> threat_id, user |-> th]
       /\ IF k > 0
          THEN LET uid == threat_alerts[k]
               IN /\ alerts' = SetItem(SetItem(alerts, uid, "status", status), uid, stamp, now)
                  /\ removed' = SetItem(SetItem(removed, uid, "status", status), uid, stamp, now)
                  /\ emit \in EmitOutcomes(HasDatetime(uid))
                  /\ ret' = Response(IF emit = "returns" THEN "200" ELSE "500", uid)
          ELSE /\ UNCHANGED <<alerts, removed>>
               /\ emit = "returns"
               /\ ret' = Response(IF k = 0 THEN "404" ELSE "500", 0)
       /\ UNCHANGED <<alert_history, nCreated, now, detVars, threat_alerts, loop>>

\* POST /api/threats/<threat_id>/acknowledge
acknowledge_threat(th, threat_id, emit) ==
    Endpoint(th, "acknowledge_threat", threat_id, "acknowledged", "acknowledged_at", emit)

\* POST /api/threats/<threat_id>/resolve
resolve_threat(th, threat_id, emit) ==
    Endpoint(th, "resolve_threat", threat_id, "resolved", "resolved_at", emit)

\* POST /api/threats/<threat_id>/escalate
escalate_threat(th, threat_id, emit) ==
    Endpoint(th, "escalate_threat", threat_id, "escalated", "escalated_at", emit)

\* The program: the cycles of the driving loop and the requests that arrive
\* in between.
NextApp ==
    \/ \E snap \in AppSnapshots : collect(snap)
    \/ detect
    \/ \E rnd \in Rands, emit \in {"returns", "raises"} : create(rnd, emit)
    \/ \E d \in CycleSeconds : sleep(d)
    \/ \E th \in Handlers, id \in AlertIds, emit \in {"returns", "raises"} :
          acknowledge_threat(th, id, emit)
    \/ \E th \in Handlers, id \in AlertIds, emit \in {"returns", "raises"} :
          resolve_threat(th, id, emit)
    \/ \E th \in Handlers, id \in AlertIds, emit \in {"returns", "raises"} :
          escalate_threat(th, id, emit)

SpecApp == Init /\ [][NextApp]_vars

----------------------------------------------------------------------------
\* The reading operations of the AlertManager (get_alert_statistics,
\* export_alerts), called between the others.

\* a counting loop of get_alert_statistics (lines 247-262) from position k on:
\*     counts[v] = counts.get(v, 0) + 1   for v = alert[key]
RECURSIVE CountBy(_, _, _, _)
CountBy(as, key, k, counts) ==
    IF k > Len(as)
    THEN counts
    ELSE LET v == as[k][key]
             n == IF v \in DOMAIN counts THEN counts[v] ELSE 0
         IN CountBy(as, key, k + 1,
                    [w \in DOMAIN counts \cup {v} |-> IF w = v THEN n + 1 ELSE counts[w]])

\* an empty dict
EmptyDict == [v \in {} |-> 0]

\* statistics whose total is taken from the history
Statistics_TotalFromHistory(as, hist) ==
    [total_alerts |-> Len(hist),
     active_alerts |-> Len(SelectSeq(as, LAMBDA a : a.status = "active")),
     escalated_alerts |-> Len(SelectSeq(as, LAMBDA a : a.status = "escalated")),
     by_severity |-> CountBy(as, "severity", 1, EmptyDict),
     by_type |-> CountBy(as, "type", 1, EmptyDict),
     by_status |-> CountBy(as, "status", 1, EmptyDict),
     total_history |-> Len(hist)]

\* the dict get_alert_statistics returns (lines 264-272)
Statistics(as, hist) ==
    [total_alerts |-> Len(as),
     active_alerts |-> Len(SelectSeq(as, LAMBDA a : a.status = "active")),
     escalated_alerts |-> Len(SelectSeq(as, LAMBDA a : a.status = "escalated")),
     by_severity |-> CountBy(as, "severity", 1, EmptyDict),
     by_type |-> CountBy(as, "type", 1, EmptyDict),
     by_status |-> CountBy(as, "status", 1, EmptyDict),
     total_history |-> Len(hist)]

\* AlertManager.get_alert_statistics()
get_alert_statistics ==
    /\ call' = [op |-> "get_alert_statistics", id |-> UnknownId, user |-> NoneStr]
    /\ ret' = IF \A j \in 1..Len(alerts) : {"status", "severity", "type"} \subseteq DOMAIN alerts[j]
              THEN [tag |-> "Statistics", val |-> Statistics(alerts, alert_history)]
              ELSE \* except Exception (a KeyError)
                   [tag |-> "StatisticsError", val |-> [error |-> "KeyError", total_alerts |-> 0]]
    /\ UNCHANGED <<mgrVars, now>>

\* str.lower on the letters of the formats
LowerChar(c) ==
    CASE c = "J" -> "j" [] c = "S" -> "s" [] c = "O" -> "o" [] c = "N" -> "n"
      [] c = "C" -> "c" [] c = "V" -> "v" [] c = "X" -> "x" [] c = "M" -> "m"
      [] c = "L" -> "l" [] OTHER -> c

\* format.lower(), a string being the sequence of its characters
Lower(s) == [k \in DOMAIN s |-> LowerChar(s[k])]

\* a format that is no string: format.lower raises AttributeError
NoneFormat == <<NoneStr>>

\* the formats handed to export_alerts
ExportFormats ==
    {<<"j", "s", "o", "n">>, <<"J", "S", "O", "N">>, <<"c", "s", "v">>, <<"C", "s", "v">>,
     <<"x", "m", "l">>, <<"j", "s", "o", "n", "l">>, <<>>, NoneFormat}

\* the rows of an export: one per alert of the active set, in order
ExportRows(as) == [j \in 1..Len(as) |-> as[j].id]

\* an export_alerts whose last branch raises
export_alerts_RaisesOnUnsupported(format) ==
    /\ call' = [op |-> "export_alerts", id |-> UnknownId, user |-> NoneStr, format |-> format]
    /\ ret' = IF format = NoneFormat
              THEN [tag |-> "ExportError", val |-> <<>>]
              ELSE IF Lower(format) = <<"j", "s", "o", "n">>
              THEN [tag |-> "Json", val |-> ExportRows(alerts)]
              ELSE IF Lower(format) = <<"c", "s", "v">>
              THEN IF alerts = <<>>
                   THEN [tag |-> "NoAlerts", val |-> <<>>]
                   ELSE [tag |-> "Csv", val |-> ExportRows(alerts)]
              ELSE [tag |-> "Raised", val |-> <<>>]
    /\ UNCHANGED <<mgrVars, now>>

\* AlertManager.export_alerts(format): the text it returns is kept as its
\* kind and its rows
export_alerts(format) ==
    /\ call' = [op |-> "export_alerts", id |-> UnknownId, user |-> NoneStr, format |-> format]
    /\ ret' = IF format = NoneFormat
              THEN \* except Exception: return f"Error exporting alerts: ..."
                   [tag |-> "ExportError", val |-> <<>>]
              ELSE IF Lower(format) = <<"j", "s", "o", "n">>
              THEN [tag |-> "Json", val |-> ExportRows(alerts)]
              ELSE IF Lower(format) = <<"c", "s", "v">>
              THEN IF alerts = <<>>
                   THEN [tag |-> "NoAlerts", val |-> <<>>]
                   ELSE [tag |-> "Csv", val |-> ExportRows(alerts)]
              ELSE [tag |-> "Unsupported", val |-> <<>>]
    /\ UNCHANGED <<mgrVars, now>>

\* The calls on the AlertManager, the reading ones included.
NextQueries ==
    \/ Next
    \/ get_alert_statistics /\ UNCHANGED <<detVars, appVars>>
    \/ \E format \in ExportFormats : export_alerts(format) /\ UNCHANGED <<detVars, appVars>>

SpecQueries == Init /\ [][NextQueries]_vars

----------------------------------------------------------------------------
\* The threshold checks of the detector on every combination of breached and
\* unbreached conditions, and on snapshots that lack fields.

\* number of analyze_data calls in one behaviour of SpecThresholds
MaxThresholdCalls == 1

\* the metrics of a system snapshot and of a network snapshot, flattened
SystemFields == {"cpu", "memory", "disk", "processes"}
NetworkFields == {"connections", "listening", "errors_in", "errors_out"}

\* for each metric its threshold and the next value above it
AtThreshold ==
    [cpu |-> threat_patterns("resource_abuse").cpu_threshold,
     memory |-> threat_patterns("resource_abuse").memory_threshold,
     disk |-> threat_patterns("resource_abuse").disk_threshold,
     processes |-> ProcessThreshold,
     connections |-> threat_patterns("network_anomaly").connection_threshold,
     listening |-> threat_patterns("network_anomaly").port_scan_threshold,
     errors_in |-> ErrorRateThreshold,
     errors_out |-> ErrorRateThreshold]

\* the snapshots over fields F whose metrics in `high` are one above their
\* threshold and the others at it
Snapshot(F, high) == [f \in F |-> IF f \in high THEN AtThreshold[f] + 1 ELSE AtThreshold[f]]

\* whole snapshots, for every choice of the metrics above their thresholds
WholeSnapshots(F) == {Snapshot(F, high) : high \in SUBSET F}

\* snapshots that lack fields (the empty one is a dict with no metric, as a
\* collector's error snapshot); every metric they have is above its threshold
PartialSnapshots(F) == {Snapshot(K, K) : K \in SUBSET F}

\* the security_data handed to analyze_data in SpecThresholds
ThresholdInputs ==
    {SecurityData(<<s>>, <<n>>, <<>>) :
        s \in WholeSnapshots(SystemFields), n \in WholeSnapshots(NetworkFields)}
    \cup {SecurityData(<<s>>, <<n>>, <<>>) :
        s \in PartialSnapshots(SystemFields) \cup {ErrorSnapshot},
        n \in PartialSnapshots(NetworkFields) \cup {ErrorSnapshot}}
    \cup {SecurityData(s, n, <<>>) :
        s \in {<<h, h, ErrorSnapshot>> : h \in {Snapshot(SystemFields, {}),
                                                 Snapshot(SystemFields, SystemFields)}},
        n \in {<<h, h, ErrorSnapshot>> : h \in {Snapshot(NetworkFields, {}),
                                                 Snapshot(NetworkFields, NetworkFields)}}}

\* The detector on the threshold inputs; the manager is idle.
NextThresholds ==
    \E data \in ThresholdInputs :
        Len(emitted) < MaxThresholdCalls /\ analyze_data(data) /\ UNCHANGED <<mgrVars, appVars>>

SpecThresholds == Init /\ [][NextThresholds]_vars

----------------------------------------------------------------------------
\* create_alert and the console: line 82 prints the alarm emoji, which
\* raises UnicodeEncodeError when the encoding of sys.stdout has no such
\* character.

\* encodings of sys.stdout
Consoles == {"utf-8", "cp1252"}

\* print(f"\U0001F6A8 New alert created: ...") returns
PrintsEmoji(stdout) == stdout = "utf-8"

\* AlertManager.create_alert(threat) on a process whose sys.stdout has the
\* encoding stdout: when the print of line 82 raises, the except block of
\* line 86 prints the error (plain text) and returns None, after the appends
\* of lines 73 and 76
create_alert_print(threat, rnd, stdout) ==
    IF PrintsEmoji(stdout) \/ ~threat.isDict
    THEN create_alert(threat, rnd)
    ELSE LET alert == NewAlert(threat, nCreated + 1, now, rnd)
             hist == Append(alert_history, alert)
         IN /\ call' = [op |-> "create_alert", id |-> <<now, rnd>>, user |-> NoneStr]
            /\ alerts' = Append(alerts, alert)
            /\ alert_history' = IF Len(hist) > HistoryCap THEN LastN(hist, HistoryCap) ELSE hist
            /\ nCreated' = nCreated + 1
            /\ ret' = RetNone
            /\ UNCHANGED <<removed, now>>

\* The calls on the AlertManager, on either console.
NextConsole ==
    \/ Next
    \/ \E th \in ThreatInputs(now), rnd \in Rands, stdout \in Consoles :
          /\ nCreated < MaxAlerts
          /\ create_alert_print(th, rnd, stdout)
          /\ UNCHANGED <<detVars, appVars>>

SpecConsole == Init /\ [][NextConsole]_vars

----------------------------------------------------------------------------
\* cleanup_old_alerts, with a clock that runs over days.

\* alert_manager.py:283 timedelta(days=days), in the seconds of the clock
DaySeconds == 86400
\* the clock of SpecCleanup runs over MaxCleanupDays days (and MaxTime seconds)
MaxCleanupDays == 1

\* the `days` handed to cleanup_old_alerts
DaysInputs == 0..MaxCleanupDays

\* a cleanup that filters the active set as it filters the history
cleanup_old_alerts_FiltersActive(days) ==
    LET cutoff_date == now - days * DaySeconds
    IN /\ call' = [op |-> "cleanup_old_alerts", id |-> UnknownId, user |-> NoneStr,
                   days |-> days]
       /\ alert_history' = SelectSeq(alert_history, LAMBDA alert : alert.timestamp > cutoff_date)
       /\ alerts' = SelectSeq(alerts, LAMBDA alert : alert.timestamp > cutoff_date)
       /\ ret' = RetNone
       /\ UNCHANGED <<removed, nCreated, now>>

\* AlertManager.cleanup_old_alerts(days); no return statement
cleanup_old_alerts(days) ==
    LET cutoff_date == now - days * DaySeconds
    IN /\ call' = [op |-> "cleanup_old_alerts", id |-> UnknownId, user |-> NoneStr,
                   days |-> days]
       /\ alert_history' = SelectSeq(alert_history, LAMBDA alert : alert.timestamp > cutoff_date)
       /\ ret' = RetNone
       /\ UNCHANGED <<alerts, removed, nCreated, now>>

\* a day passes; no call of the manager is in progress
Day ==
    /\ now + DaySeconds <= MaxCleanupDays * DaySeconds + MaxTime
    /\ now' = now + DaySeconds
    /\ call' = [op |-> "tick", id |-> UnknownId, user |-> NoneStr]
    /\ ret' = RetNone
    /\ UNCHANGED <<alerts, alert_history, removed, nCreated>>

\* The calls on the AlertManager over days, cleanup_old_alerts among them.
NextCleanup ==
    \/ Next
    \/ Day /\ UNCHANGED <<detVars, appVars>>
    \/ \E days \in DaysInputs : cleanup_old_alerts(days) /\ UNCHANGED <<detVars, appVars>>

SpecCleanup == Init /\ [][NextCleanup]_vars

----------------------------------------------------------------------------
\* Properties of the Alert Lifecycle Manager.

\* every alert object built so far that the manager still lists or has resolved
Objects ==
    {Resolved(alerts[i]) : i \in 1..Len(alerts)} \cup {removed[i] : i \in 1..Len(removed)}

\* no two alert objects share an id
IdsDistinct == \A a, b \in Objects : a.uid # b.uid => a.id # b.id

LifecycleOps == {"acknowledge_alert", "resolve_alert", "escalate_alert"}

\* C1: after any sequence of AlertManager operations, every alert record (in
\* the active set, in the history, or resolved and removed) has status
\* 'resolved' if and only if its resolved flag is true.
C1_StatusIffResolved ==
    /\ \A i \in 1..Len(alerts) : (alerts[i].status = "resolved") <=> alerts[i].resolved
    /\ \A i \in 1..Len(alert_history) :
          (alert_history[i].status = "resolved") <=> alert_history[i].resolved
    /\ \A i \in 1..Len(removed) : (removed[i].status = "resolved") <=> removed[i].resolved

\* C1 witness: an alert was resolved while another one sits escalated in the
\* active set.
C1_Witness ==
    /\ \E i \in 1..Len(removed) : removed[i].resolved
    /\ \E j \in 1..Len(alerts) : alerts[j].status = "escalated"

\* C2: an alert leaves the active set exactly once, on resolution: an alert
\* resolved by resolve_alert is never again in the active set and is removed
\* only once, and, ids being distinct, every later resolve_alert on its id
\* returns false and leaves the active set as it is.
C2_LeavesActiveSetOnce ==
    /\ [](/\ \A i \in 1..Len(removed), j \in 1..Len(alerts) : alerts[j].uid # removed[i].uid
          /\ \A i, j \in 1..Len(removed) : i # j => removed[i].uid # removed[j].uid
          /\ \A i \in 1..Len(removed) : removed[i].resolved)
    /\ [][(/\ call'.op = "resolve_alert"
           /\ IdsDistinct
           /\ \E i \in 1..Len(removed) : removed[i].id = call'.id)
          => (ret' = RetFalse /\ alerts' = alerts /\ removed' = removed)]_vars

\* C2 witness: resolve_alert was called again on the id of a resolved alert,
\* with all ids distinct and another alert still active, and returned false.
C2_Witness ==
    /\ call.op = "resolve_alert"
    /\ ret = RetFalse
    /\ \E i \in 1..Len(removed) : removed[i].id = call.id
    /\ IdsDistinct
    /\ Len(alerts) > 0

\* C3: create-then-resolve round trip: after resolve_alert(id, actor) returns
\* true, the resolved alert is absent from get_active_alerts() and the history
\* holds an entry with that id whose resolved flag is true.
C3_ResolveRoundTrip ==
    (call.op = "resolve_alert" /\ ret = RetTrue)
    => /\ \A i \in 1..Len(get_active_alerts) :
             get_active_alerts[i].uid # removed[Len(removed)].uid
       /\ \E i \in 1..Len(alert_history) :
             alert_history[i].id = call.id /\ alert_history[i].resolved

C5_HistoryCapFifo ==
    /\ Len(alert_history) <= HistoryCap
    /\ Len(alert_history) = IF nCreated <= HistoryCap THEN nCreated ELSE HistoryCap
    /\ \A i \in 1..Len(alert_history) :
          alert_history[i].uid = nCreated - Len(alert_history) + i

\* C5 witness: more alerts were created than the history holds, and the
\* oldest ones are gone.
C5_Witness ==
    /\ nCreated = HistoryCap + CapOverrun
    /\ Len(alert_history) = HistoryCap
    /\ alert_history[1].uid = CapOverrun + 1

\* the alerts other than those at the positions in S are as they were, and
\* the active set has the same members in the same order
OnlyChanged(S) ==
    /\ Len(alerts') = Len(alerts)
    /\ \A i \in 1..Len(alerts) :
          /\ alerts'[i].uid = alerts[i].uid
          /\ i \notin S => alerts'[i] = alerts[i]

\* escalate_alert as C6 states it, for the call made in this step
EscalateContract ==
    call'.op = "escalate_alert"
    => LET hits == {i \in 1..Len(alerts) :
                       alerts[i].id = call'.id /\ alerts[i].status = "active"}
       IN /\ (ret' = RetTrue) <=> (hits # {})
          /\ ret' \in {RetTrue, RetFalse}
          /\ ret' = RetTrue =>
                \E i \in hits :
                    /\ OnlyChanged({i})
                    /\ alerts'[i] = [alerts[i] EXCEPT
                                        !.status = "escalated",
                                        !.escalation_time = [iso |-> TRUE, at |-> now]]
          /\ ret' = RetFalse => alerts' = alerts
          /\ UNCHANGED <<alert_history, removed>>

\* C6: escalate_alert(id) returns true exactly when the active set holds an
\* alert with that id whose status is 'active'; it then sets that alert's
\* status to 'escalated', overwrites its escalation deadline with the current
\* time and changes no other alert; otherwise (the alert is already
\* escalated, or there is none) it returns false and changes nothing.
C6_EscalateExactlyWhenActive == [][EscalateContract]_vars

\* C6, ids being distinct: the same statement over the steps taken while no
\* two alert objects share an id.
C6_WhileIdsDistinct == [][IdsDistinct => EscalateContract]_vars

\* escalate_alert on the id of a resolved alert, as C7 states it
EscalateResolvedContract ==
    (/\ call'.op = "escalate_alert"
     /\ \E i \in 1..Len(removed) : removed[i].id = call'.id)
    => /\ ret' = RetFalse
       /\ UNCHANGED <<alerts, alert_history, removed>>

\* C7: escalate_alert on an alert that has been resolved returns false and is
\* a no-op: the alert stays resolved, the active set and the history are
\* unchanged.
C7_EscalateResolvedIsNoop == [][EscalateResolvedContract]_vars

\* C7, ids being distinct.
C7_WhileIdsDistinct == [][IdsDistinct => EscalateResolvedContract]_vars

\* acknowledge_alert on the id of each alert of the active set, as C8 states it
AcknowledgeContract ==
    call'.op = "acknowledge_alert"
    => \A i \in 1..Len(alerts) :
          alerts[i].id = call'.id
          => /\ ret' = RetTrue
             /\ OnlyChanged({i})
             /\ alerts'[i].acknowledged
             /\ alerts'[i].acknowledged_by = call'.user
             /\ alerts'[i].status = alerts[i].status
             /\ alerts'[i].resolved = alerts[i].resolved
             /\ UNCHANGED <<alert_history, removed>>

\* C8: acknowledge_alert(id, actor) on an alert in the active set returns
\* true, sets that alert's acknowledged flag and records the actor, and
\* leaves its status, its resolved flag and the membership of the active set
\* unchanged.
C8_AcknowledgeFrame == [][AcknowledgeContract]_vars

\* C8, ids being distinct.
C8_WhileIdsDistinct == [][IdsDistinct => AcknowledgeContract]_vars

\* C9: for an id that matches no alert in the active set, acknowledge_alert,
\* resolve_alert and escalate_alert each return false and leave the active
\* set, the history and the resolved alerts unchanged.
C9_UnknownIdIsNoop ==
    [][(/\ call'.op \in LifecycleOps
        /\ \A i \in 1..Len(alerts) : alerts[i].id # call'.id)
       => (ret' = RetFalse /\ UNCHANGED <<alerts, alert_history, removed>>)]_vars

\* C9 witness: acknowledge_alert was called with an id that no alert of the
\* non-empty active set has, and returned false.
C9_Witness ==
    /\ call.op = "acknowledge_alert"
    /\ ret = RetFalse
    /\ Len(alerts) > 0
    /\ \A i \in 1..Len(alerts) : alerts[i].id # call.id

\* C10: auto_resolve_alerts returns an integer, the number of alerts the
\* call resolved, that is the number of alerts it took out of the active set.
C10_AutoResolveReturnsCount ==
    [][call'.op = "auto_resolve_alerts"
       => (ret'.tag = "Int" /\ ret'.val = Len(alerts) - Len(alerts'))]_vars

\* C10, of the count the function keeps: every auto_resolve_alerts call
\* returns None, whatever it resolved.
C10_ReturnsNone ==
    [][call'.op = "auto_resolve_alerts" => ret' = RetNone]_vars

\* auto_resolve_alerts(m) on the 'High CPU usage' resource_abuse alerts of the
\* active set, as C11 states it: such an alert is resolved and taken out of
\* the active set when the latest system snapshot of m reports a CPU usage
\* below the resolve threshold, and else stays as it is
AutoResolveCpuContract(m) ==
    auto_resolve_alerts(m)
    => \A i \in 1..Len(alerts) :
          (/\ alerts[i].type = "resource_abuse"
           /\ StartsWith(alerts[i].description, <<"High", "CPU", "usage">>))
          => IF /\ Truthy(m, "system_metrics")
                /\ Get(Last(m["system_metrics"]), "cpu", 0) < ResolveThreshold
             THEN /\ \A j \in 1..Len(alerts') : alerts'[j].uid # alerts[i].uid
                  /\ \E j \in 1..Len(removed') :
                        /\ removed'[j].uid = alerts[i].uid
                        /\ removed'[j].resolved
                        /\ removed'[j].status = "resolved"
             ELSE /\ \E j \in 1..Len(alerts') : alerts'[j] = alerts[i]
                  /\ ~alerts[i].resolved

\* C11: auto_resolve_alerts resolves a resource_abuse alert of the active set
\* whose description begins with 'High CPU usage' exactly when the most recent
\* system snapshot of current_metrics reports a CPU usage strictly below 70;
\* with CPU at 75 or at exactly 70 the alert stays in the active set,
\* unresolved.
C11_AutoResolveCpuBelow70 ==
    [][\A m \in MetricsInputs : AutoResolveCpuContract(m)]_vars

\* C11, ids being distinct: the same statement over the steps taken while no
\* two alert objects share an id.
C11_WhileIdsDistinct ==
    [][IdsDistinct => \A m \in MetricsInputs : AutoResolveCpuContract(m)]_vars

\* C11, ids being distinct: a 'High CPU usage' alert has just been resolved by
\* auto_resolve_alerts while another alert stays in the active set.
C11_WitnessResolved ==
    /\ call.op = "auto_resolve_alerts"
    /\ IdsDistinct
    /\ Len(removed) > 0
    /\ Len(alerts) > 0

\* the alert at position i of the active set is resolved in this step and
\* taken out of the active set
ResolvedNow(i) ==
    /\ \A j \in 1..Len(alerts') : alerts'[j].uid # alerts[i].uid
    /\ \E j \in 1..Len(removed') :
          /\ removed'[j].uid = alerts[i].uid
          /\ removed'[j].resolved
          /\ removed'[j].status = "resolved"

\* auto_resolve_alerts(m) on the network_anomaly alerts of the active set, as
\* C12 states it
AutoResolveNetContract(m) ==
    auto_resolve_alerts(m)
    => \A i \in 1..Len(alerts) :
          (alerts[i].type = "network_anomaly" /\ Truthy(m, "network_traffic"))
          => LET latest_network == Last(m["network_traffic"])
             IN /\ (/\ StartsWith(alerts[i].description,
                                  <<"Excessive", "network", "connections">>)
                    /\ Get(latest_network, "connections", 0) < NetResolveConnections)
                   => ResolvedNow(i)
                /\ (/\ StartsWith(alerts[i].description,
                                  <<"High", "number", "of", "listening", "ports">>)
                    /\ Get(latest_network, "listening", 0) < NetResolveListening)
                   => ResolvedNow(i)

\* C12: auto_resolve_alerts resolves a network_anomaly alert of the active set
\* that came from an excessive-connections detection once the latest network
\* snapshot reports fewer than 1000 total connections, and one that came from
\* a listening-ports detection once it reports fewer than 30 listening ports.
C12_AutoResolveNetwork ==
    [][\A m \in MetricsInputs : AutoResolveNetContract(m)]_vars

\* C12, of the rule catalog: network_anomaly alerts are built with
\* auto_resolve = False, so, ids being distinct, auto_resolve_alerts leaves
\* every one of them in the active set as it is, whatever the network
\* snapshot reports.
C12_NetworkAlertsStay ==
    [][(IdsDistinct /\ call'.op = "auto_resolve_alerts")
       => \A i \in 1..Len(alerts) :
             alerts[i].type = "network_anomaly"
             => \E j \in 1..Len(alerts') : alerts'[j] = alerts[i]]_vars

----------------------------------------------------------------------------
\* Properties of the Threat Detector.

\* every suspicious_process Threat returned so far, as <<call, position>>
ProcessEmissions ==
    UNION {{<<c, i>> : i \in {k \in 1..Len(emitted[c]) :
                                 emitted[c][k].type = "suspicious_process"}} :
           c \in 1..Len(emitted)}

\* C13: cooldown: across any sequence of analyze_data calls, any two
\* suspicious_process Threats emitted are at least the cooldown window (60 s)
\* apart, so two snapshots with more than 500 processes analysed less than
\* 60 s apart yield at most one such Threat.
C13_CooldownSpacing ==
    \A p, q \in ProcessEmissions :
        p # q => \/ emitted[p[1]][p[2]].at - emitted[q[1]][q[2]].at >= alert_cooldown
                 \/ emitted[q[1]][q[2]].at - emitted[p[1]][p[2]].at >= alert_cooldown

\* C13 witness: after two suspicious_process Threats, a snapshot with more
\* than 500 processes has just been analysed and yielded none.
C13_Witness ==
    /\ Cardinality(ProcessEmissions) = 2
    /\ call.op = "analyze_data"
    /\ Get(Last(security_data["system_metrics"]), "processes", 0) > ProcessThreshold
    /\ ret = RetThreats(<<>>)

\* the Threats the last analyze_data call returned, and the positions of
\* those whose id is f'{kind}_...'
Returned == ret.val
OfKind(kind) == {i \in 1..Len(Returned) : Returned[i].id[1] = kind}

\* the last call was analyze_data on a dict whose system history ends with a
\* snapshot that is a dict
AnalysedSystemSnapshot ==
    /\ call.op = "analyze_data"
    /\ IsDict(security_data)
    /\ Truthy(security_data, "system_metrics")
    /\ IsDict(Last(security_data["system_metrics"]))

\* C14: for every input whose most recent system snapshot has CPU usage > 95,
\* analyze_data returns a resource_abuse Threat for that CPU usage whose
\* details.threshold is 95; with CPU usage <= 95 it returns no CPU threshold
\* Threat.
C14_CpuThreshold ==
    AnalysedSystemSnapshot
    => LET cpu == Get(Last(security_data["system_metrics"]), "cpu", 0)
       IN /\ cpu > 95
             => \E i \in 1..Len(Returned) :
                   /\ Returned[i].type = "resource_abuse"
                   /\ Get(Returned[i].details, "cpu_usage", -1) = cpu
                   /\ Get(Returned[i].details, "threshold", -1) = 95
          /\ cpu <= 95 => OfKind("cpu_abuse") = {}

\* C14 witness: a snapshot with CPU 96 was analysed and a cpu_abuse Threat
\* came back.
C14_Witness ==
    /\ AnalysedSystemSnapshot
    /\ Get(Last(security_data["system_metrics"]), "cpu", 0) = 96
    /\ OfKind("cpu_abuse") # {}

\* the last call was analyze_data on a system history of at least 3
\* snapshots, all of them dicts
AnalysedSystemHistory ==
    /\ call.op = "analyze_data"
    /\ IsDict(security_data)
    /\ Len(security_data["system_metrics"]) >= 3
    /\ \A i \in 1..Len(security_data["system_metrics"]) :
          IsDict(security_data["system_metrics"][i])

\* the CPU usage of snapshot i of the analysed system history
CpuAt(i) == Get(security_data["system_metrics"][i], "cpu", 0)

\* C15 as stated: for every history of at least 3 system snapshots in which
\* CPU usage rises by exactly 31 points between the first and the last
\* snapshot, analyze_data emits a rapid-increase Threat; when it rises by
\* exactly 30 points it emits none.
C15_RiseFirstToLast ==
    AnalysedSystemHistory
    => LET n == Len(security_data["system_metrics"])
       IN /\ CpuAt(n) - CpuAt(1) = 31 => OfKind("rapid_cpu_increase") # {}
          /\ CpuAt(n) - CpuAt(1) = 30 => OfKind("rapid_cpu_increase") = {}

\* C15 amended: for every history of at least 3 system snapshots in which CPU
\* usage rises by exactly 31 points between the third-from-last and the last
\* snapshot, analyze_data emits exactly one rapid-increase Threat; when it
\* rises by exactly 30 points over those three it emits none, whatever the
\* earlier snapshots hold.
C15_RiseOverLastThree ==
    AnalysedSystemHistory
    => LET n == Len(security_data["system_metrics"])
       IN /\ CpuAt(n) - CpuAt(n - 2) = 31 => Cardinality(OfKind("rapid_cpu_increase")) = 1
          /\ CpuAt(n) - CpuAt(n - 2) = 30 => OfKind("rapid_cpu_increase") = {}

\* C15 witness: a history of 4 snapshots whose CPU rises by 31 over the last
\* three but not from the first to the last was analysed and yielded the
\* rapid-increase Threat.
C15_Witness ==
    /\ AnalysedSystemHistory
    /\ Len(security_data["system_metrics"]) = 4
    /\ CpuAt(4) - CpuAt(2) = 31
    /\ CpuAt(4) - CpuAt(1) # 31
    /\ OfKind("rapid_cpu_increase") # {}

\* the last call was analyze_data on the 40/50/75 scenario
AnalysedScenario ==
    /\ call.op = "analyze_data"
    /\ security_data = SecurityData(RisingCpuScenario, <<>>, <<>>)

\* C16: analysing three system snapshots with CPU 40, 50, 75 (no network
\* data, no events) yields exactly one Threat, the rapid-increase trend
\* Threat, and so no threshold-breach resource_abuse Threat and no
\* brute_force Threat.
C16_RisingCpuScenario ==
    AnalysedScenario
    => /\ Len(Returned) = 1
       /\ Returned[1].id[1] = "rapid_cpu_increase"
       /\ Returned[1].type = "resource_abuse"
       /\ Returned[1].source = "pattern_analyzer"
       /\ Returned[1].details.increase = 35
       /\ OfKind("cpu_abuse") \cup OfKind("memory_abuse") \cup OfKind("disk_abuse") = {}
       /\ \A i \in 1..Len(Returned) : Returned[i].type # "brute_force"

\* C16 witness: the scenario was analysed and a trend Threat came back.
C16_Witness ==
    /\ AnalysedScenario
    /\ OfKind("rapid_cpu_increase") # {}

\* the last call was analyze_data on a dict whose events are all dicts
AnalysedEvents ==
    /\ call.op = "analyze_data"
    /\ IsDict(security_data)
    /\ \A i \in 1..Len(security_data["security_events"]) :
          IsDict(security_data["security_events"][i])

\* the number of analysed events whose message contains 'Failed login attempt'
FailedLoginCount ==
    Cardinality({i \in 1..Len(security_data["security_events"]) :
                    Contains(Get(security_data["security_events"][i], "message", <<>>),
                             <<"Failed", "login", "attempt">>)})

\* C17: for an events list in which n messages contain 'Failed login
\* attempt', analyze_data returns exactly one brute_force Threat, with
\* details.failed_attempts = n, when n >= 5, and no brute_force Threat when
\* n < 5.
C17_BruteForceAtFive ==
    AnalysedEvents
    => LET brute == {i \in 1..Len(Returned) : Returned[i].type = "brute_force"}
       IN IF FailedLoginCount >= 5
          THEN /\ Cardinality(brute) = 1
               /\ \A i \in brute : Returned[i].details.failed_attempts = FailedLoginCount
          ELSE brute = {}

\* C17 witness: a list of 6 events, exactly 5 of them failed logins, was
\* analysed and a brute_force Threat came back.
C17_Witness ==
    /\ AnalysedEvents
    /\ Len(security_data["security_events"]) = 6
    /\ FailedLoginCount = 5
    /\ OfKind("brute_force") # {}

\* the inputs on which a check section of analyze_data raises inside its try
\* block: the value it calls .get on is no dict
SystemSectionFails ==
    /\ Truthy(security_data, "system_metrics")
    /\ ~IsDict(Last(security_data["system_metrics"]))
NetworkSectionFails ==
    /\ Truthy(security_data, "network_traffic")
    /\ ~IsDict(Last(security_data["network_traffic"]))
EventSectionFails ==
    \E i \in 1..Len(security_data["security_events"]) :
        ~IsDict(security_data["security_events"][i])
PatternSectionFails ==
    \E key \in {"system_metrics", "network_traffic"} :
        /\ Len(security_data[key]) >= TrendWindow
        /\ \E i \in 1..TrendWindow :
              ~IsDict(security_data[key][Len(security_data[key]) - TrendWindow + i])

Count(b) == IF b THEN 1 ELSE 0

\* every Threat of the list threats is among the returned ones
AllReturned(threats) ==
    \A k \in 1..Len(threats) : \E i \in 1..Len(Returned) : Returned[i] = threats[k]

\* failure isolation in analyze_data as C18 states it, with the severity the
\* analysis_error Threat of the pattern section is to carry
FailureIsolation(patternSeverity) ==
    call.op = "analyze_data"
    => /\ ret.tag = "Threats"
       /\ IF ~IsDict(security_data)
          THEN \* the whole pipeline failed
               /\ Len(Returned) = 1
               /\ Returned[1].type = "analysis_error"
               /\ Returned[1].severity = "critical"
          ELSE /\ \A i \in 1..Len(Returned) :
                     Returned[i].type = "analysis_error"
                     => /\ Returned[i].severity # "critical"
                        /\ Returned[i].severity =
                              IF Returned[i].id[1] = "pattern_analysis_error"
                              THEN patternSeverity
                              ELSE "medium"
               /\ Cardinality(OfKind("system_analysis_error"))
                     = IF SystemSectionFails THEN 1 ELSE 0
               /\ Cardinality(OfKind("network_analysis_error"))
                     = IF NetworkSectionFails THEN 1 ELSE 0
               /\ Cardinality(OfKind("event_analysis_error"))
                     = IF EventSectionFails THEN 1 ELSE 0
               /\ Cardinality(OfKind("pattern_analysis_error"))
                     = IF PatternSectionFails THEN 1 ELSE 0
               /\ Cardinality({i \in 1..Len(Returned) : Returned[i].type = "analysis_error"})
                     = Count(SystemSectionFails) + Count(NetworkSectionFails)
                       + Count(EventSectionFails) + Count(PatternSectionFails)
               /\ (Truthy(security_data, "network_traffic") /\ ~NetworkSectionFails)
                     => AllReturned(_analyze_network_traffic(
                                        Last(security_data["network_traffic"]), now))
               /\ (Truthy(security_data, "security_events") /\ ~EventSectionFails)
                     => AllReturned(_analyze_security_events(
                                        security_data["security_events"], now))
               /\ ~PatternSectionFails => AllReturned(_analyze_patterns(security_data, now))
               /\ (/\ Truthy(security_data, "system_metrics")
                   /\ ~SystemSectionFails
                   /\ Get(Last(security_data["system_metrics"]), "cpu", 0) > 95)
                     => OfKind("cpu_abuse") # {}

\* C18: failure isolation in analyze_data: when a check section (system,
\* network, events or pattern analysis) fails internally, analyze_data does
\* not raise, still returns the Threats of the other sections, and adds
\* exactly one analysis_error Threat for the failing section, with severity
\* 'medium'; only a failure of the whole pipeline yields a single
\* analysis_error Threat with severity 'critical'.
C18_FailureIsolation == FailureIsolation("medium")

\* C18, with the severity the pattern section gives its analysis_error
\* Threat: the same statement holds with 'low' for that one section.
C18_PatternErrorIsLow == FailureIsolation("low")

----------------------------------------------------------------------------
\* Creation and identity of alerts.

\* C19: every alert returned by create_alert starts with status 'active',
\* acknowledged = false and resolved = false, and immediately after the call
\* it is the last element of the active set and a copy of it is the last
\* element of the history.
C19_CreatedAlertInitialState ==
    (call.op = "create_alert" /\ ret.tag = "Alert")
    => /\ alerts # <<>>
       /\ alert_history # <<>>
       /\ LET alert == Last(alerts)
          IN /\ alert.uid = ret.val
             /\ alert.id = call.id
             /\ alert.status = "active"
             /\ ~alert.acknowledged
             /\ ~alert.resolved
             /\ Last(alert_history) = alert

\* C19 witness: create_alert has just returned an alert that joined an
\* active set holding an escalated, acknowledged alert.
C19_Witness ==
    /\ call.op = "create_alert"
    /\ ret.tag = "Alert"
    /\ Len(alerts) = 2
    /\ alerts[1].status = "escalated"
    /\ alerts[1].acknowledged

\* C20: alert identifiers are globally unique: after any sequence of
\* create_alert calls, several within one clock second included, no two
\* alerts in the active set and no two in the history share an id (so that
\* acknowledge, resolve and escalate by id address the alert whose
\* create_alert returned that id).
C20_IdsUnique ==
    /\ \A i, j \in 1..Len(alerts) : i # j => alerts[i].id # alerts[j].id
    /\ \A i, j \in 1..Len(alert_history) :
          i # j => alert_history[i].id # alert_history[j].id

\* C20, of calls in different clock seconds: two alerts that share an id were
\* created in the same second with the same random draw.
C20_CollisionsWithinOneSecond ==
    \A i, j \in 1..Len(alert_history) :
        (i # j /\ alert_history[i].id = alert_history[j].id)
        => alert_history[i].timestamp = alert_history[j].timestamp

----------------------------------------------------------------------------
\* Identity of Threats.

\* C21: every Threat carries a process-unique identifier: no two Threats
\* returned by analyze_data, within one call or across calls (calls within
\* the same clock second included), have the same id.
C21_ThreatIdsUnique ==
    \A i, j \in 1..Len(emitted) :
        \A k \in 1..Len(emitted[i]), l \in 1..Len(emitted[j]) :
            (i # j \/ k # l) => emitted[i][k].id # emitted[j][l].id

\* What holds instead: the Threats of one call have distinct ids, and two
\* Threats of different calls share an id only when they are of the same
\* check and were built within the same clock second.
C21_CollisionsWithinOneSecond ==
    \A i, j \in 1..Len(emitted) :
        \A k \in 1..Len(emitted[i]), l \in 1..Len(emitted[j]) :
            ((i # j \/ k # l) /\ emitted[i][k].id = emitted[j][l].id)
            => (i # j /\ emitted[i][k].at = emitted[j][l].at)

----------------------------------------------------------------------------
\* The AlertManager under concurrent calls.

\* no call is in progress
Quiescent == \A th \in Threads : threads[th].pc \in {"idle", "returned"}

\* C22: under any interleaving of the request handlers' lifecycle calls with
\* each other and with the driving loop, once all calls in flight have
\* returned no alert has resolved = true with a status other than 'resolved';
\* in particular no alert is out of the active set and marked 'escalated'.
C22_ResolveEscalateRace ==
    Quiescent =>
        /\ \A j \in 1..Len(alerts) : alerts[j].resolved => alerts[j].status = "resolved"
        /\ \A j \in 1..Len(removed) : removed[j].resolved => removed[j].status = "resolved"
        /\ \A j \in 1..Len(removed) : removed[j].status # "escalated"

\* What the interleavings keep: an alert that left the active set has its
\* resolved flag set, and an alert of the active set has status active or
\* escalated.
C22_FlagSetBeforeRemoval ==
    /\ \A j \in 1..Len(removed) : removed[j].resolved
    /\ Quiescent => \A j \in 1..Len(alerts) : alerts[j].status \in {"active", "escalated"}

\* C24: no lost updates on the active set: an alert whose create_alert had
\* returned when acknowledge_alert or resolve_alert was called on its id, and
\* which is still in the active set when that call returns, was found by the
\* call (the call did not return false); and an alert leaves the active set
\* only resolved.
C24_NoLostUpdates ==
    /\ \A th \in Handlers :
          (/\ threads[th].pc = "returned"
           /\ threads[th].op \in {"acknowledge_alert", "resolve_alert"}
           /\ threads[th].ret = RetFalse)
          => \A j \in 1..Len(alerts) : alerts[j].uid \notin threads[th].seen
    /\ \A j \in 1..Len(removed) : removed[j].resolved

\* C24 with all ids distinct, is refuted as well: the lookup misses an alert
\* without any collision of ids.
C24_WhileIdsDistinct == IdsDistinct => C24_NoLostUpdates

\* What holds of the list itself: every alert object built is in the active
\* set or among the removed ones, once and only once.
C24_NoAlertVanishes ==
    /\ \A u \in 1..nCreated :
          Cardinality({j \in 1..Len(alerts) : alerts[j].uid = u})
             + Cardinality({j \in 1..Len(removed) : removed[j].uid = u}) = 1

----------------------------------------------------------------------------
\* The ThreatDetector under concurrent calls.

\* thread th has finished an analyze_data call on a snapshot with more than
\* 500 processes
AnalysedManyProcesses(th) ==
    /\ threads[th].pc = "returned"
    /\ threads[th].op = "analyze_data"
    /\ ReachesGate(threads[th].arg)

\* C23: the cooldown check-and-refresh is atomic: of two analyze_data calls
\* run by two threads on snapshots with more than 500 processes within one
\* cooldown window, at most one emits a suspicious_process Threat.
C23_AtomicCooldown ==
    \A a, b \in Handlers :
        (/\ a # b
         /\ AnalysedManyProcesses(a)
         /\ AnalysedManyProcesses(b)
         /\ threads[a].current_time - threads[b].current_time < alert_cooldown
         /\ threads[b].current_time - threads[a].current_time < alert_cooldown)
        => ~(threads[a].send /\ threads[b].send)

\* What holds: the cooldown map never runs ahead of the clock, and a call
\* emits the Threat exactly when its _should_send_alert answered True.
C23_GateDecidesEmission ==
    /\ \A type \in DOMAIN last_alert_time : last_alert_time[type] <= now
    /\ \A th \in Handlers :
          AnalysedManyProcesses(th)
          => (threads[th].send
                 <=> \E i \in 1..Len(threads[th].ret.val) :
                        threads[th].ret.val[i].type = "suspicious_process")

----------------------------------------------------------------------------
\* The whole program: the driving loop and the control endpoints.

LifecycleStates == {"active", "escalated", "resolved"}

\* C25: in the whole program the status of every alert record created by the
\* manager is always one of active, escalated, resolved.
C25_StatusInLifecycleStates ==
    /\ \A j \in 1..Len(alerts) : alerts[j].status \in LifecycleStates
    /\ \A j \in 1..Len(alert_history) : alert_history[j].status \in LifecycleStates
    /\ \A j \in 1..Len(removed) : removed[j].status \in LifecycleStates

\* What holds: the only status outside the three is the 'acknowledged' the
\* acknowledge endpoint writes, and the history copies stay 'active'.
C25_AcknowledgedIsTheFourth ==
    /\ \A j \in 1..Len(alerts) : alerts[j].status \in LifecycleStates \cup {"acknowledged"}
    /\ \A j \in 1..Len(alert_history) : alert_history[j].status = "active"

\* C26: the control endpoints act through the manager's operations: after the
\* resolve endpoint succeeded for an alert, that alert has resolved = true and
\* is no longer in the manager's active set; and the escalate endpoint
\* changes the status of an alert only when the alert is active.
C26_EndpointsThroughManager ==
    /\ []((call.op = "resolve_threat" /\ ret.tag = "200")
          => /\ \A j \in 1..Len(alerts) : alerts[j].uid # ret.val
             /\ \E j \in 1..Len(removed) : removed[j].uid = ret.val /\ removed[j].resolved)
    /\ [][call'.op = "escalate_threat"
          => \A j \in 1..Len(alerts) :
                alerts'[j].status # alerts[j].status => alerts[j].status = "active"]_vars

\* What the endpoints do instead: they write the status (and a time) on the
\* alert dict, whatever its status was, and leave the active set, the
\* resolved flag and the acknowledged flag as they are.
C26_EndpointsWriteStatusOnly ==
    [][call'.op \in {"acknowledge_threat", "resolve_threat", "escalate_threat"}
       => /\ Len(alerts') = Len(alerts)
          /\ removed' = removed
          /\ \A j \in 1..Len(alerts) :
                /\ alerts'[j].uid = alerts[j].uid
                /\ alerts'[j].resolved = alerts[j].resolved
                /\ alerts'[j].acknowledged = alerts[j].acknowledged
                /\ (ret'.tag = "200" /\ ret'.val = alerts[j].uid)
                      => alerts'[j].status = CASE call'.op = "acknowledge_threat" -> "acknowledged"
                                               [] call'.op = "resolve_threat" -> "resolved"
                                               [] OTHER -> "escalated"]_vars

\* the alert is past its escalation deadline
Overdue(alert) == ~alert.escalation_time.iso /\ now > alert.escalation_time.at

\* C27: deadline-driven escalation: on each tick the driving loop escalates
\* every alert that is overdue and still active, so when a cycle of the loop
\* is over no alert of the active set is overdue with status 'active'.
C27_OverdueAlertsEscalated ==
    loop.pc = "sleep" =>
        \A j \in 1..Len(alerts) : alerts[j].status = "active" => ~Overdue(alerts[j])

\* What holds: no step of the driving loop changes the status of an alert.
C27_LoopNeverEscalates ==
    [][call'.op \in {"collect", "analyze_data", "create_alert", "sleep"}
       => \A j \in 1..Len(alerts) : alerts'[j].status = alerts[j].status]_vars

----------------------------------------------------------------------------
\* Properties of the reading operations and of the lifecycle as a whole.

\* the sum of the counts of a dict
RECURSIVE SumDict(_)
SumDict(d) ==
    IF DOMAIN d = {}
    THEN 0
    ELSE LET v == CHOOSE v \in DOMAIN d : TRUE
         IN d[v] + SumDict([w \in DOMAIN d \ {v} |-> d[w]])

\* C28: get_alert_statistics is consistent with the manager state after any
\* sequence of operations: total_alerts is the size of the active set and is
\* active_alerts + escalated_alerts; by_status, by_severity and by_type each
\* sum to total_alerts; by_status has no 'resolved'; total_history is the
\* length of the history.
C28_StatisticsConsistent ==
    call.op = "get_alert_statistics" =>
        /\ ret.tag = "Statistics"
        /\ ret.val.total_alerts = Len(alerts)
        /\ ret.val.total_alerts = ret.val.active_alerts + ret.val.escalated_alerts
        /\ SumDict(ret.val.by_status) = ret.val.total_alerts
        /\ SumDict(ret.val.by_severity) = ret.val.total_alerts
        /\ SumDict(ret.val.by_type) = ret.val.total_alerts
        /\ "resolved" \notin DOMAIN ret.val.by_status
        /\ ret.val.total_history = Len(alert_history)

\* the statistics were taken of an active set with one active and one
\* escalated alert of different severities
C28_Witness ==
    /\ call.op = "get_alert_statistics"
    /\ ret.tag = "Statistics"
    /\ ret.val.active_alerts = 1
    /\ ret.val.escalated_alerts = 1
    /\ DOMAIN ret.val.by_severity = {"medium", "high"}

\* the statistics were taken after an alert was resolved: the history is
\* longer than the active set
C28_WitnessAfterResolve ==
    /\ call.op = "get_alert_statistics"
    /\ ret.tag = "Statistics"
    /\ Len(removed) = 1
    /\ ret.val.total_alerts = 1
    /\ ret.val.total_history = 2

\* the formats that export_alerts knows, whatever their case
KnownFormat(format) ==
    Lower(format) \in {<<"j", "s", "o", "n">>, <<"c", "s", "v">>}

\* C29: export_alerts with a format other than 'json' or 'csv', whatever the
\* case, returns the unsupported-format result and does not raise; and
\* export_alerts with any format leaves the active set and the history as
\* they were.
C29_UnsupportedFormatResult ==
    /\ []((call.op = "export_alerts" /\ call.format # NoneFormat /\ ~KnownFormat(call.format))
             => ret.tag = "Unsupported")
    /\ [](call.op = "export_alerts" => ret.tag # "Raised")
    /\ [][call'.op = "export_alerts"
             => alerts' = alerts /\ alert_history' = alert_history]_vars

\* 'xml' was asked for while the active set held an alert
C29_Witness ==
    /\ call.op = "export_alerts"
    /\ call.format = <<"x", "m", "l">>
    /\ ret.tag = "Unsupported"
    /\ Len(alerts) > 0

\* the formats are compared without their case: 'JSON' and 'Csv' export
C29_KnownFormatsExport ==
    (call.op = "export_alerts" /\ call.format # NoneFormat /\ KnownFormat(call.format))
        => ret.tag \in {"Json", "Csv", "NoAlerts"}

\* the status of the alert object uid, in the active set or out of it
StatusOf(as, rm, uid) ==
    {as[j].status : j \in {j \in 1..Len(as) : as[j].uid = uid}}
        \cup {rm[j].status : j \in {j \in 1..Len(rm) : rm[j].uid = uid}}

\* C30: lifecycle transitions: the only status changes an operation of the
\* manager makes are active -> escalated, by escalate_alert only, and
\* active -> resolved and escalated -> resolved, by resolve_alert or
\* auto_resolve_alerts only; 'resolved' is terminal, and nothing but an
\* escalate_alert call sets the status 'escalated'.
C30_LifecycleTransitions ==
    [][\A uid \in 1..nCreated :
          \A s \in StatusOf(alerts, removed, uid), t \in StatusOf(alerts', removed', uid) :
             s # t =>
                \/ s = "active" /\ t = "escalated" /\ call'.op = "escalate_alert"
                \/ /\ s \in {"active", "escalated"}
                   /\ t = "resolved"
                   /\ call'.op \in {"resolve_alert", "auto_resolve_alerts"}]_vars

\* every alert object keeps exactly one status, in the active set or out of it
C30_OneStatusEach ==
    \A uid \in 1..nCreated : Cardinality(StatusOf(alerts, removed, uid)) = 1

\* an escalated alert was resolved
C30_Witness ==
    /\ call.op = "resolve_alert"
    /\ ret = RetTrue
    /\ \E j \in 1..Len(removed) : removed[j].status = "resolved"
    /\ \E j \in 1..Len(alerts) : alerts[j].status = "escalated" /\ alerts[j].acknowledged

----------------------------------------------------------------------------
\* Properties of the threshold checks.

\* the latest snapshots of the analysed security_data
LatestSystem == Last(security_data["system_metrics"])
LatestNetwork == Last(security_data["network_traffic"])

\* the latest snapshot s carries metric f above its threshold
Breached(s, f) == f \in DOMAIN s /\ s[f] > AtThreshold[f]

\* exactly one threat of that kind and type when the condition is breached,
\* none otherwise
OnePer(kind, type, breached) ==
    /\ Cardinality(OfKind(kind)) = IF breached THEN 1 ELSE 0
    /\ \A i \in OfKind(kind) : Returned[i].type = type

\* the kinds of the six threshold checks
ThresholdKinds ==
    {"cpu_abuse", "memory_abuse", "disk_abuse", "network_anomaly", "port_scan", "network_errors"}

\* the positions of the threshold Threats among the returned ones
ThresholdThreats == UNION {OfKind(kind) : kind \in ThresholdKinds}

\* the number of breached conditions of the analysed snapshots
BreachedCount ==
    Cardinality({f \in {"cpu", "memory", "disk"} : Breached(LatestSystem, f)})
    + Cardinality({f \in {"connections", "listening"} : Breached(LatestNetwork, f)})
    + (IF Breached(LatestNetwork, "errors_in") \/ Breached(LatestNetwork, "errors_out")
       THEN 1 ELSE 0)

\* C31: detection rules are additive: in one analyze_data pass the number of
\* threshold Threats is the number of breached conditions among CPU > 95,
\* memory > 98, disk > 95 (one resource_abuse Threat each), connections > 1500,
\* listening ports > 50 and errors_in > 100 or errors_out > 100 (one
\* network_anomaly Threat each, a single one when both error counters are
\* above 100); no breached condition suppresses another.
C31_RulesAdditive ==
    call.op = "analyze_data" =>
        /\ OnePer("cpu_abuse", "resource_abuse", Breached(LatestSystem, "cpu"))
        /\ OnePer("memory_abuse", "resource_abuse", Breached(LatestSystem, "memory"))
        /\ OnePer("disk_abuse", "resource_abuse", Breached(LatestSystem, "disk"))
        /\ OnePer("network_anomaly", "network_anomaly", Breached(LatestNetwork, "connections"))
        /\ OnePer("port_scan", "network_anomaly", Breached(LatestNetwork, "listening"))
        /\ OnePer("network_errors", "network_anomaly",
                  Breached(LatestNetwork, "errors_in") \/ Breached(LatestNetwork, "errors_out"))
        /\ Cardinality(ThresholdThreats) = BreachedCount

\* all six conditions were breached in one pass, both error counters among
\* them, and six threshold Threats came back
C31_Witness ==
    /\ call.op = "analyze_data"
    /\ BreachedCount = 6
    /\ Breached(LatestNetwork, "errors_in") /\ Breached(LatestNetwork, "errors_out")
    /\ Cardinality(ThresholdThreats) = 6

----------------------------------------------------------------------------
\* Properties of the cooldown over time.

\* the times at which a suspicious_process Threat was emitted so far
ProcessEmissionTimes == {emitted[p[1]][p[2]].at : p \in ProcessEmissions}

\* the snapshot analysed by the step has more than 500 processes
TriggeringStep ==
    /\ call'.op = "analyze_data"
    /\ Get(Last(security_data'["system_metrics"]), "processes", 0) > ProcessThreshold

\* the step returns a suspicious_process Threat
EmittingStep == \E i \in 1..Len(ret'.val) : ret'.val[i].type = "suspicious_process"

\* C32: re-armed cooldown: the cooldown timestamp of suspicious_process is
\* written exactly when a Threat of that type is emitted and is left as it is
\* by a suppressed detection; hence the first triggering snapshot emits, and
\* a triggering snapshot analysed at least 60 s after the last emitted Threat
\* emits, however many suppressed triggers came in between.
C32_RearmedCooldown ==
    [][/\ call'.op = "analyze_data" =>
            IF EmittingStep
            THEN last_alert_time' = Put(last_alert_time, "process_anomaly", now)
            ELSE last_alert_time' = last_alert_time
       /\ (TriggeringStep /\ \A t \in ProcessEmissionTimes : now - t >= alert_cooldown)
            => EmittingStep]_vars

\* the cooldown timestamp is the time of the last emitted Threat
C32_TimestampIsLastEmission ==
    IF ProcessEmissionTimes = {}
    THEN "process_anomaly" \notin DOMAIN last_alert_time
    ELSE /\ "process_anomaly" \in DOMAIN last_alert_time
         /\ last_alert_time["process_anomaly"] \in ProcessEmissionTimes
         /\ \A t \in ProcessEmissionTimes : t <= last_alert_time["process_anomaly"]

\* a Threat was emitted at 0, a trigger 59 s later was suppressed, and the
\* trigger analysed now, less than 60 s after the suppressed one, emitted
C32_Witness ==
    /\ Len(emitted) = 3
    /\ ProcessEmissionTimes = {0, now}
    /\ emitted[2] = <<>>
    /\ analysis_history[2].timestamp = alert_cooldown - 1
    /\ now - analysis_history[2].timestamp < alert_cooldown
    /\ call.op = "analyze_data"

----------------------------------------------------------------------------
\* Properties of the alert records as a set.

\* C33: alert records are deduplicated: after any sequence of driving-loop
\* cycles and create_alert calls the active set holds at most one alert per
\* originating Threat identifier, so feeding the same detected condition
\* again does not add a second active alert for it.
C33_OneAlertPerThreat ==
    \A i, j \in 1..Len(alerts) :
        alerts[i].threat_id = alerts[j].threat_id => i = j

\* the same for the detected condition (the check that built the Threat),
\* whatever the second of the detection
C33_OneAlertPerCondition ==
    \A i, j \in 1..Len(alerts) :
        (alerts[i].threat_id[1] = alerts[j].threat_id[1] /\ alerts[i].status = "active"
            /\ alerts[j].status = "active") => i = j

\* What holds: every successful create_alert call adds one alert to the
\* active set, whatever the set holds already.
C33_EveryCallAdds ==
    [][(call'.op = "create_alert" /\ ret'.tag = "Alert") => Len(alerts') = Len(alerts) + 1]_vars

----------------------------------------------------------------------------
\* Properties of a failing create_alert.

\* C34: failure of create_alert has no effect: whenever create_alert returns
\* no alert (None) because of an internal error, the active set and the
\* history are exactly as they were before the call (and nothing is raised
\* to the caller).
C34_FailedCreateNoEffect ==
    [][(call'.op = "create_alert" /\ ret' = RetNone)
       => alerts' = alerts /\ alert_history' = alert_history]_vars

\* What holds: a call that returns None either changed nothing or added
\* exactly the alert it built, to the active set and to the history.
C34_FailedCreateAddsAtMostItsAlert ==
    [][(call'.op = "create_alert" /\ ret' = RetNone)
       => \/ alerts' = alerts /\ alert_history' = alert_history
          \/ /\ Len(alerts') = Len(alerts) + 1
             /\ SubSeq(alerts', 1, Len(alerts)) = alerts
             /\ Last(alerts').status = "active"
             /\ Last(alert_history') = Last(alerts')]_vars

----------------------------------------------------------------------------
\* Properties of the detector on snapshots that lack fields.

\* the last call analysed security_data whose latest snapshots are dicts
AnalysedSnapshots ==
    /\ call.op = "analyze_data"
    /\ Truthy(security_data, "system_metrics") /\ IsDict(LatestSystem)
    /\ Truthy(security_data, "network_traffic") /\ IsDict(LatestNetwork)

\* the check of each metric: the kind of the Threat it builds
KindOf ==
    [cpu |-> "cpu_abuse", memory |-> "memory_abuse", disk |-> "disk_abuse",
     processes |-> "process_anomaly", connections |-> "network_anomaly",
     listening |-> "port_scan"]

\* a latest snapshot lacks a field the checks read
LacksField ==
    \/ SystemFields \ DOMAIN LatestSystem # {}
    \/ NetworkFields \ DOMAIN LatestNetwork # {}

\* C35: missing snapshot fields are treated as zero: for a latest system or
\* network snapshot that lacks the cpu, memory, disk, processes, connections
\* or traffic fields (a collector's error snapshot for one), analyze_data
\* raises nothing (no analysis_error Threat either), emits no Threat of the
\* check of a missing metric, and leaves the cooldown state as it was.
C35_MissingFieldsAreZero ==
    /\ []((AnalysedSnapshots /\ LacksField) =>
            /\ \A i \in 1..Len(Returned) : Returned[i].type # "analysis_error"
            /\ \A f \in SystemFields \ DOMAIN LatestSystem : OfKind(KindOf[f]) = {}
            /\ \A f \in {"connections", "listening"} \ DOMAIN LatestNetwork :
                  OfKind(KindOf[f]) = {}
            /\ {"errors_in", "errors_out"} \cap DOMAIN LatestNetwork = {}
                  => OfKind("network_errors") = {})
    /\ [][(call'.op = "analyze_data"
             /\ "processes" \notin DOMAIN Last(security_data'["system_metrics"]))
           => last_alert_time' = last_alert_time]_vars

\* error snapshots were analysed after two snapshots with every metric above
\* its threshold, and no Threat came back
C35_Witness ==
    /\ AnalysedSnapshots
    /\ LatestSystem = ErrorSnapshot /\ LatestNetwork = ErrorSnapshot
    /\ Len(security_data["system_metrics"]) = 3
    /\ Breached(security_data["system_metrics"][1], "cpu")
    /\ Returned = <<>>

\* a snapshot without cpu and processes was analysed: the checks of the
\* fields it has fired
C35_WitnessPartial ==
    /\ AnalysedSnapshots
    /\ DOMAIN LatestSystem = {"memory", "disk"}
    /\ OfKind("memory_abuse") # {} /\ OfKind("disk_abuse") # {}
    /\ OfKind("cpu_abuse") = {}

----------------------------------------------------------------------------
\* Properties of cleanup_old_alerts.

\* the age of a history entry when the cleanup runs, and the age handed to it
Age(alert) == now - alert.timestamp
MaxAge == call'.days * DaySeconds

\* C36, as stated: cleanup_old_alerts(max_age) removes from the history
\* exactly the entries whose creation timestamp is older than max_age, keeps
\* the remaining entries in their original order, and leaves the active set
\* unchanged.
C36_RemovesOlderThanMaxAge ==
    [][call'.op = "cleanup_old_alerts"
       => /\ alert_history' = SelectSeq(alert_history, LAMBDA alert : ~(Age(alert) > MaxAge))
          /\ alerts' = alerts]_vars

\* C36, amended: cleanup_old_alerts(max_age) removes from the history exactly
\* the entries that are at least max_age old (an entry of exactly max_age
\* goes too), keeps the remaining entries in their original order, and leaves
\* the active set unchanged.
C36_RemovesAtLeastMaxAge ==
    [][call'.op = "cleanup_old_alerts"
       => /\ alert_history' = SelectSeq(alert_history, LAMBDA alert : ~(Age(alert) >= MaxAge))
          /\ alerts' = alerts]_vars

\* a cleanup took the history entry of the older of two active alerts and
\* kept that of the younger; both are still active
C36_Witness ==
    /\ call.op = "cleanup_old_alerts"
    /\ call.days = 1
    /\ Len(alerts) = 2
    /\ alerts[1].status = "active"
    /\ Len(alert_history) = 1
    /\ alert_history[1].uid = alerts[2].uid
    /\ now - alerts[1].timestamp > DaySeconds

\* the frame alone: cleanup_old_alerts changes nothing but the history
C36_ActiveSetUntouched ==
    [][call'.op = "cleanup_old_alerts" => alerts' = alerts /\ removed' = removed]_vars

----------------------------------------------------------------------------
\* Properties of the hand-over from the detector to the manager.

\* the Threats of the analyze_data calls c..d, in the order returned
RECURSIVE ThreatsOfCycles(_, _)
ThreatsOfCycles(c, d) ==
    IF c > d THEN <<>> ELSE emitted[c] \o ThreatsOfCycles(c + 1, d)

\* the Threats create_alert was handed so far, as the alerts record them: the
\* program never takes an alert out of the active set
Consumed ==
    [j \in 1..Len(alerts) |->
        [id |-> alerts[j].threat_id, type |-> alerts[j].type, at |-> alerts[j].timestamp]]

\* the Threats that are due: those of the cycles that are over, and in the
\* `for threat in threats` loop the ones before the current turn
Due ==
    IF loop.pc = "create"
    THEN ThreatsOfCycles(1, Len(emitted) - 1)
            \o SubSeq(emitted[Len(emitted)], 1, loop.k - 1)
    ELSE ThreatsOfCycles(1, Len(emitted))

\* C37: each Threat is consumed exactly once: in every cycle of the driving
\* loop create_alert is called exactly once for each Threat that cycle's
\* analyze_data returned, in the order returned, and a Threat of one cycle is
\* never handed to create_alert in a later cycle.
C37_ConsumedExactlyOnce ==
    /\ Consumed = Due
    /\ nCreated = Len(Due)

\* the Threats handed to create_alert that the c-th analyze_data call returned
ConsumedOf(c) ==
    SelectSeq(Consumed, LAMBDA x : x.at = analysis_history[c].timestamp)

\* What holds: no Threat is handed to create_alert twice or in a later
\* cycle, and the Threats of a cycle are handed over in the order returned,
\* from the first one on; the cycle may end before the last one.
C37_AtMostOnceInOrder ==
    /\ \A c \in 1..Len(emitted) :
          /\ Len(ConsumedOf(c)) <= Len(emitted[c])
          /\ ConsumedOf(c) = SubSeq(emitted[c], 1, Len(ConsumedOf(c)))
    /\ \A j \in 1..Len(Consumed) :
          \E c \in 1..Len(emitted) : Consumed[j].at = analysis_history[c].timestamp
    /\ \A j, k \in 1..Len(Consumed) : j < k => Consumed[j].at <= Consumed[k].at
    /\ nCreated = Len(Consumed)

----------------------------------------------------------------------------
\* The manager fed with the trend Threat of the pattern analyzer as well.

\* threat_detector.py:307-320, the Threat of a rapid CPU increase
RapidCpuThreat(t) ==
    [isDict |-> TRUE, id |-> <<"rapid_cpu_increase", t>>, type |-> "resource_abuse",
     severity |-> "medium",
     description |-> <<"Rapid", "CPU", "usage", "increase", "detected">>]

\* The calls on the AlertManager, the trend Threat among the Threats.
NextTrend ==
    \/ Next
    \/ \E rnd \in Rands :
          /\ nCreated < MaxAlerts
          /\ create_alert(RapidCpuThreat(now), rnd)
          /\ UNCHANGED <<detVars, appVars>>

SpecTrend == Init /\ [][NextTrend]_vars

\* the three prefixes _check_resource_resolution knows
ResourcePrefixes ==
    {<<"High", "CPU", "usage">>, <<"High", "memory", "usage">>, <<"High", "disk", "usage">>}

\* an alert auto_resolve_alerts has no rule for: not eligible, or an eligible
\* resource_abuse alert whose description starts with none of the prefixes
Spared(alert) ==
    \/ ~alert.auto_resolve
    \/ /\ alert.type = "resource_abuse"
       /\ \A p \in ResourcePrefixes : ~StartsWith(alert.description, p)

\* the alert object at position i of the active set is there after the step,
\* as it was
StaysAsItWas(i) == \E j \in 1..Len(alerts') : alerts'[j] = alerts[i]

\* C38: auto_resolve_alerts never resolves an alert that is not auto-resolve
\* eligible and never resolves an eligible resource_abuse alert whose
\* description matches none of the three prefixes: an alert created from the
\* rapid-CPU-increase trend Threat stays in the active set through any number
\* of auto_resolve_alerts calls, whatever the metrics.
C38_AutoResolveSparesUnmatched ==
    [][call'.op = "auto_resolve_alerts"
       => \A i \in 1..Len(alerts) : Spared(alerts[i]) => StaysAsItWas(i)]_vars

\* C38, ids being distinct: the same statement over the steps taken while no
\* two alert objects share an id.
C38_WhileIdsDistinct ==
    [][(IdsDistinct /\ call'.op = "auto_resolve_alerts")
       => \A i \in 1..Len(alerts) : Spared(alerts[i]) => StaysAsItWas(i)]_vars

\* C38, ids being distinct: auto_resolve_alerts has just resolved a 'High CPU
\* usage' alert and the trend alert created with it is still in the active set.
C38_WitnessTrendStays ==
    /\ call.op = "auto_resolve_alerts"
    /\ IdsDistinct
    /\ \E j \in 1..Len(removed), h \in 1..Len(alert_history) :
          /\ alert_history[h].uid = removed[j].uid
          /\ alert_history[h].threat_id[1] = "cpu_abuse"
    /\ \E i \in 1..Len(alerts) :
          /\ alerts[i].threat_id[1] = "rapid_cpu_increase"
          /\ alerts[i].auto_resolve
          /\ ~alerts[i].resolved

----------------------------------------------------------------------------
\* get_active_alerts and the escalated alerts.

\* the position in the active set of the alert object uid
PositionOf(uid) == CHOOSE i \in 1..Len(alerts) : alerts[i].uid = uid

\* the positions of the escalated alerts of the active set
Escalated == {i \in 1..Len(alerts) : alerts[i].status = "escalated"}

\* get_active_alerts() is the active set filtered by status 'active', in the
\* order of the active set
ActiveAlertsAreTheActiveOnes ==
    LET r == get_active_alerts
    IN /\ \A j \in 1..Len(r) :
             /\ r[j].status = "active"
             /\ \E i \in 1..Len(alerts) : alerts[i] = r[j]
       /\ \A i \in 1..Len(alerts) :
             alerts[i].status = "active" <=> \E j \in 1..Len(r) : r[j].uid = alerts[i].uid
       /\ \A j, k \in 1..Len(r) : j < k => PositionOf(r[j].uid) < PositionOf(r[k].uid)

\* an escalated alert is unresolved, is no member of get_active_alerts(), is
\* counted in total_alerts and is what _find_alert returns for its id
EscalatedStillThere ==
    LET r == get_active_alerts
        stats == Statistics(alerts, alert_history)
    IN /\ stats.total_alerts = Len(r) + Cardinality({i \in 1..Len(alerts) : alerts[i].status # "active"})
       /\ stats.total_alerts >= Len(r) + Cardinality(Escalated)
       /\ \A i \in Escalated :
             /\ ~alerts[i].resolved
             /\ \A j \in 1..Len(r) : r[j].uid # alerts[i].uid
             /\ _find_alert(alerts, alerts[i].id) = i

\* acknowledge_alert, resolve_alert and auto_resolve_alerts act on an escalated
\* alert as on any other member of the active set
EscalatedStillFound ==
    /\ \A i \in Escalated :
          /\ (call'.op = "acknowledge_alert" /\ call'.id = alerts[i].id)
             => /\ ret' = RetTrue
                /\ \E j \in 1..Len(alerts') :
                      /\ alerts'[j].uid = alerts[i].uid
                      /\ alerts'[j].acknowledged
                      /\ alerts'[j].acknowledged_by = call'.user
          /\ (call'.op = "resolve_alert" /\ call'.id = alerts[i].id)
             => ret' = RetTrue /\ ResolvedNow(i)
    /\ \A m \in MetricsInputs :
          auto_resolve_alerts(m)
          => \A i \in Escalated : AutoResolves(alerts[i], m) => ResolvedNow(i)

\* C39: get_active_alerts returns exactly the members of the active set whose
\* status is 'active': an escalated alert is excluded from it although it is
\* still unresolved, still counted in total_alerts, and still found by
\* acknowledge_alert, resolve_alert and auto_resolve_alerts.
C39_ActiveAlertsExcludeEscalated ==
    /\ [](ActiveAlertsAreTheActiveOnes /\ EscalatedStillThere)
    /\ [][EscalatedStillFound]_vars

\* C39: acknowledge_alert has just found an escalated alert, which is still
\* escalated and unresolved and is left out of get_active_alerts(), while an
\* active alert is listed.
C39_Witness ==
    /\ call.op = "acknowledge_alert"
    /\ ret = RetTrue
    /\ \E i \in Escalated : alerts[i].id = call.id /\ alerts[i].acknowledged
    /\ Len(get_active_alerts) = 1
    /\ Len(alerts) = 2

=============================================================================
